---- MODULE Spec2Model ----
(***************************************************************************)
(* A model of genstruct's Generator: Generate (generator.go), the          *)
(* per-dataset emitters generateConstants / generateVariables /            *)
(* generateSlice, the literal emitter (values.go) and the structgen        *)
(* reference resolution (values.go).                                       *)
(*                                                                         *)
(* Go strings are sequences of one-character strings, so that string       *)
(* conversions (slugToIdentifier, ToLower, %d formatting) are computed.    *)
(* reflect.Value is a record with a field k (its Kind).  A jen.Statement   *)
(* is a record with a field e (the expression form).                       *)
(***************************************************************************)
EXTENDS Integers, Sequences, FiniteSets, TLC

\* ------------------------------------------------------------------------
\* Characters and strings
\* ------------------------------------------------------------------------
LowerLetters ==
    <<"a","b","c","d","e","f","g","h","i","j","k","l","m",
      "n","o","p","q","r","s","t","u","v","w","x","y","z">>

UpperLetters ==
    <<"A","B","C","D","E","F","G","H","I","J","K","L","M",
      "N","O","P","Q","R","S","T","U","V","W","X","Y","Z">>

DigitChars == <<"0","1","2","3","4","5","6","7","8","9">>

Range(seq) == { seq[i] : i \in 1..Len(seq) }

LowerSet == Range(LowerLetters)

UpperSet == Range(UpperLetters)

\* the character class [a-zA-Z0-9]
AlnumSet == LowerSet \cup UpperSet \cup Range(DigitChars)

UpperOf == [c \in LowerSet |-> UpperLetters[CHOOSE i \in 1..26 : LowerLetters[i] = c]]

LowerOf == [c \in UpperSet |-> LowerLetters[CHOOSE i \in 1..26 : UpperLetters[i] = c]]

IsAlnum(c) == c \in AlnumSet

ToUpperCh(c) == IF c \in LowerSet THEN UpperOf[c] ELSE c

ToLowerCh(c) == IF c \in UpperSet THEN LowerOf[c] ELSE c

ToUpper(s) == [i \in 1..Len(s) |-> ToUpperCh(s[i])]

ToLower(s) == [i \in 1..Len(s) |-> ToLowerCh(s[i])]

RECURSIVE Join(_)
Join(words) ==
    IF words = <<>> THEN <<>> ELSE Head(words) \o Join(Tail(words))

HasSuffix(s, suf) ==
    /\ Len(s) >= Len(suf)
    /\ SubSeq(s, Len(s) - Len(suf) + 1, Len(s)) = suf

Contains(s, c) == \E i \in 1..Len(s) : s[i] = c

\* fmt's %d of a non-negative integer
RECURSIVE Itoa(_)
Itoa(n) ==
    IF n < 10 THEN <<DigitChars[n + 1]>>
    ELSE Itoa(n \div 10) \o <<DigitChars[(n % 10) + 1]>>

\* ------------------------------------------------------------------------
\* slugToIdentifier (generator.go)
\* ------------------------------------------------------------------------
\* regexp "[^a-zA-Z0-9]+" ReplaceAllString(s, " "): every maximal run of
\* non-alphanumeric characters becomes one space.
RECURSIVE ReplaceNonAlnumRuns(_, _)
ReplaceNonAlnumRuns(s, inRun) ==
    IF s = <<>> THEN <<>>
    ELSE IF IsAlnum(Head(s))
         THEN <<Head(s)>> \o ReplaceNonAlnumRuns(Tail(s), FALSE)
         ELSE (IF inRun THEN <<>> ELSE <<" ">>) \o ReplaceNonAlnumRuns(Tail(s), TRUE)

\* strings.Fields: the words between runs of spaces, empty words dropped.
RECURSIVE FieldsFrom(_, _, _)
FieldsFrom(s, word, acc) ==
    IF s = <<>>
    THEN (IF word = <<>> THEN acc ELSE Append(acc, word))
    ELSE IF Head(s) = " "
         THEN FieldsFrom(Tail(s), <<>>, IF word = <<>> THEN acc ELSE Append(acc, word))
         ELSE FieldsFrom(Tail(s), Append(word, Head(s)), acc)

Fields(s) == FieldsFrom(s, <<>>, <<>>)

\* strings.ToUpper(word[0:1]) + strings.ToLower(word[1:])
TitleWord(word) == <<ToUpperCh(Head(word))>> \o ToLower(Tail(word))

slugToIdentifier(s) ==
    LET words == Fields(ReplaceNonAlnumRuns(s, FALSE))
    IN  Join([i \in 1..Len(words) |-> TitleWord(words[i])])

\* ------------------------------------------------------------------------
\* Names used by the datasets of the model
\* ------------------------------------------------------------------------
TagName == <<"T","a","g">>

PostName == <<"P","o","s","t">>

UserName == <<"U","s","e","r">>

MainPkg == <<"m","a","i","n">>

\* ------------------------------------------------------------------------
\* reflect: types and values
\* ------------------------------------------------------------------------
TString == [k |-> "string"]

TInt == [k |-> "int"]

TBool == [k |-> "bool"]

TSlice(t) == [k |-> "slice", elem |-> t]

TPtr(t) == [k |-> "ptr", elem |-> t]

\* a named struct type: its name and the package that defines it
TStruct(name, pkg) == [k |-> "struct", name |-> name, pkg |-> pkg]

\* time.Time
TTime == TStruct(<<"T","i","m","e">>, <<"t","i","m","e">>)

\* reflect.StructField: name, type, the structgen tag ("" when absent)
SField(name, type, tag) ==
    [name |-> name, type |-> type, tag |-> tag, exported |-> TRUE, anonymous |-> FALSE]

\* an embedded field: reflect.StructField.Anonymous
SEmbedded(name, type) ==
    [name |-> name, type |-> type, tag |-> "", exported |-> TRUE, anonymous |-> TRUE]

VInvalid == [k |-> "invalid"]

VString(s) == [k |-> "string", type |-> TString, s |-> s]

VInt(n) == [k |-> "int", type |-> TInt, n |-> n]

VSlice(elemType, items) == [k |-> "slice", type |-> TSlice(elemType), items |-> items]

\* a struct value: its type, its fields in declaration order, their values
VStruct(type, fields, f) == [k |-> "struct", type |-> type, fields |-> fields, f |-> f]

\* a time.Time: what Year, Month, Day, Hour, Minute, Second and Nanosecond
\* return in its location, and the offset of its location east of UTC in
\* hours
VTime(wall, offset) == [k |-> "struct", type |-> TTime, wall |-> wall, offset |-> offset]

\* a non-nil pointer to v
VPtr(v) == [k |-> "ptr", type |-> TPtr(v.type), to |-> <<v>>]

VNilPtr(t) == [k |-> "ptr", type |-> TPtr(t), to |-> <<>>]

\* reflect.Value.Elem of a pointer: the zero Value for a nil pointer
Elem(v) == IF v.to = <<>> THEN VInvalid ELSE v.to[1]

IsValid(v) == v.k # "invalid"

\* reflect.Value.FieldByName on a struct value
FieldByName(sv, name) == IF name \in DOMAIN sv.f THEN sv.f[name] ELSE VInvalid

\* reflect.Type.FieldByName on a struct value's type: <<field>> or <<>>
RECURSIVE TypeFieldByName(_, _)
TypeFieldByName(fields, name) ==
    IF fields = <<>> THEN <<>>
    ELSE IF Head(fields).name = name THEN <<Head(fields)>>
    ELSE TypeFieldByName(Tail(fields), name)

IsStructOrPtrToStruct(t) ==
    \/ t.k = "struct"
    \/ (t.k = "ptr" /\ t.elem.k = "struct")

\* ------------------------------------------------------------------------
\* jen statements
\* ------------------------------------------------------------------------
JLitString(s) == [e |-> "litstring", s |-> s]

JLitInt(n) == [e |-> "litint", n |-> n]

JLitBool(b) == [e |-> "litbool", b |-> b]

JNil == [e |-> "nil"]

\* jen.Qual("time", "Date").Call(args..., jen.Qual("time", "UTC"))
JTimeDate(wall) ==
    [e |-> "call", fn |-> <<"t","i","m","e",".","D","a","t","e">>,
     args |-> wall, loc |-> <<"t","i","m","e",".","U","T","C">>]

JId(name) == [e |-> "id", name |-> name]

JQual(pkg, name) == [e |-> "qual", pkg |-> pkg, name |-> name]

\* Op("&").Add(x)
JAddr(x) == [e |-> "addr", x |-> x]

\* Op("*").Add(t)
JStar(t) == [e |-> "star", x |-> t]

\* Index().Add(t): the type []t
JIndex(t) == [e |-> "index", elem |-> t]

\* t.Values(items...) / t.ValuesFunc adding items one by one
JValues(t, items) == [e |-> "values", type |-> t, items |-> items]

\* t.ValuesFunc adding one jen.Dict: dict maps the emitted field names
JDictValues(t, dict) == [e |-> "dictvalues", type |-> t, dict |-> dict]

\* ------------------------------------------------------------------------
\* time.Now().UnixNano(): each reading returns the clock, which then
\* advances by the resolution the platform's clock has between two readings
\* ------------------------------------------------------------------------
ClockAfterRead(now, tick) == now + tick

\* ------------------------------------------------------------------------
\* getStructIdentifier (generator.go)
\* ------------------------------------------------------------------------
\* the custom naming functions of the model (Generator.CustomVarNameFn)
ApplyCustomVarNameFn(fn, sv) ==
    LET slug == FieldByName(sv, "Slug")
    IN  IF IsValid(slug) /\ slug.k = "string" THEN slug.s ELSE <<"i","t","e","m">>

\* for _, fieldName := range g.IdentifierFields: <<value>> of the first
\* field that is valid, a string and non-empty, or <<>>
RECURSIVE FirstIdentifierField(_, _)
FirstIdentifierField(sv, idFields) ==
    IF idFields = <<>> THEN <<>>
    ELSE LET field == FieldByName(sv, Head(idFields))
         IN  IF IsValid(field) /\ field.k = "string" /\ field.s # <<>>
             THEN <<field.s>>
             ELSE FirstIdentifierField(sv, Tail(idFields))

\* for i := range structValue.NumField(): the first non-empty string field
RECURSIVE FirstStringField(_, _)
FirstStringField(sv, fields) ==
    IF fields = <<>> THEN <<>>
    ELSE LET field == sv.f[Head(fields).name]
         IN  IF field.k = "string" /\ field.s # <<>>
             THEN <<field.s>>
             ELSE FirstStringField(sv, Tail(fields))

\* getStructIdentifier with the two lookups in the other order: the first
\* non-empty string field before the identifier fields
getStructIdentifierStringFirst(gen, structValue, now, tick) ==
    LET sv == IF structValue.k = "ptr" THEN Elem(structValue) ELSE structValue
        byId == FirstIdentifierField(sv, gen.IdentifierFields)
        byString == FirstStringField(sv, sv.fields)
    IN  IF gen.CustomVarNameFn # "nil"
        THEN [ident |-> ApplyCustomVarNameFn(gen.CustomVarNameFn, sv), now |-> now]
        ELSE IF byString # <<>> THEN [ident |-> byString[1], now |-> now]
        ELSE IF byId # <<>> THEN [ident |-> byId[1], now |-> now]
        ELSE [ident |-> gen.TypeName \o <<"-">> \o Itoa(now),
              now |-> ClockAfterRead(now, tick)]

\* returns the identifier and the clock after the call
getStructIdentifier(gen, structValue, now, tick) ==
    LET sv == IF structValue.k = "ptr" THEN Elem(structValue) ELSE structValue
        byId == FirstIdentifierField(sv, gen.IdentifierFields)
        byString == FirstStringField(sv, sv.fields)
    IN  IF gen.CustomVarNameFn # "nil"
        THEN [ident |-> ApplyCustomVarNameFn(gen.CustomVarNameFn, sv), now |-> now]
        ELSE IF byId # <<>> THEN [ident |-> byId[1], now |-> now]
        ELSE IF byString # <<>> THEN [ident |-> byString[1], now |-> now]
        ELSE [ident |-> gen.TypeName \o <<"-">> \o Itoa(now),
              now |-> ClockAfterRead(now, tick)]

\* ------------------------------------------------------------------------
\* getTypeStatement (types.go)
\* ------------------------------------------------------------------------
\* strings.Contains(g.OutputFile, "/")
isExportMode(gen) == Contains(gen.OutputFile, "/")

useQualified(gen, pkgPath) ==
    isExportMode(gen) /\ pkgPath # <<>> /\ pkgPath # MainPkg /\ pkgPath # gen.PackageName

RECURSIVE getTypeStatement(_, _)
getTypeStatement(gen, t) ==
    CASE t.k = "bool" -> JId(<<"b","o","o","l">>)
      [] t.k = "int" -> JId(<<"i","n","t">>)
      [] t.k = "string" -> JId(<<"s","t","r","i","n","g">>)
      [] t.k = "slice" ->
           IF t.elem.k = "ptr"
           THEN JIndex(JStar(getTypeStatement(gen, t.elem.elem)))
           ELSE JIndex(getTypeStatement(gen, t.elem))
      [] t.k = "struct" ->
           IF t = TTime THEN JQual(t.pkg, t.name)
           ELSE IF useQualified(gen, t.pkg) THEN JQual(t.pkg, t.name) ELSE JId(t.name)
      [] t.k = "ptr" -> JStar(getTypeStatement(gen, t.elem))

\* ------------------------------------------------------------------------
\* Reference resolution (values.go)
\*
\* Every emitter returns a record that carries the clock after it ran (now);
\* the loops carry their result so far and the clock in acc.
\* ------------------------------------------------------------------------
\* one candidate record against one source identifier: the loop over
\* g.IdentifierFields, left at the first field that is valid, a string and
\* equal to idValue
RECURSIVE AnyIdentifierFieldMatches(_, _, _)
AnyIdentifierFieldMatches(refStruct, idFields, idValue) ==
    IF idFields = <<>> THEN FALSE
    ELSE LET refIDField == FieldByName(refStruct, Head(idFields))
         IN  IF IsValid(refIDField) /\ refIDField.k = "string" /\ refIDField.s = idValue
             THEN TRUE
             ELSE AnyIdentifierFieldMatches(refStruct, Tail(idFields), idValue)

DerefStruct(refStruct) == IF refStruct.k = "ptr" THEN Elem(refStruct) ELSE refStruct

\* a literal of the target type where the reference should be
ReferenceStatementInlined(structTypeName, isPointer, id) ==
    [stmt |-> IF isPointer
              THEN JAddr(JDictValues(JId(structTypeName), <<>>))
              ELSE JDictValues(JId(structTypeName), <<>>),
     now |-> id.now]

\* refVarName := structTypeName + slugToIdentifier(identValue), as &name for
\* a pointer field and as name for a value field
ReferenceStatement(structTypeName, isPointer, id) ==
    [stmt |-> IF isPointer
              THEN JAddr(JId(structTypeName \o slugToIdentifier(id.ident)))
              ELSE JId(structTypeName \o slugToIdentifier(id.ident)),
     now |-> id.now]

\* the reference expression of a matched record
ReferenceTo(gen, structTypeName, refStruct, isPointer, now, tick) ==
    ReferenceStatement(structTypeName, isPointer,
                       getStructIdentifier(gen, refStruct, now, tick))

PushStatement(acc, r) == [stmts |-> Append(acc.stmts, r.stmt), now |-> r.now]

\* the loop body that pads with nil where the record does not match
ReferenceSliceCandidatePadded(gen, structTypeName, isPointerSlice, idValue, refElem, tick, acc) ==
    IF AnyIdentifierFieldMatches(DerefStruct(refElem), gen.IdentifierFields, idValue)
    THEN PushStatement(acc, ReferenceTo(gen, structTypeName, DerefStruct(refElem),
                                        isPointerSlice, acc.now, tick))
    ELSE PushStatement(acc, [stmt |-> JNil, now |-> acc.now])

\* generateReferenceSlice, the body of for j := range refData.Len(): the
\* break of a match leaves the loop over the identifier fields only
ReferenceSliceCandidate(gen, structTypeName, isPointerSlice, idValue, refElem, tick, acc) ==
    IF AnyIdentifierFieldMatches(DerefStruct(refElem), gen.IdentifierFields, idValue)
    THEN PushStatement(acc, ReferenceTo(gen, structTypeName, DerefStruct(refElem),
                                        isPointerSlice, acc.now, tick))
    ELSE acc

\* generateReferenceSlice, for j := range refData.Len(): every record is
\* visited, whether or not an earlier one matched
RECURSIVE ReferenceSliceScan(_, _, _, _, _, _, _)
ReferenceSliceScan(gen, structTypeName, isPointerSlice, idValue, refItems, tick, acc) ==
    IF refItems = <<>> THEN acc
    ELSE ReferenceSliceScan(gen, structTypeName, isPointerSlice, idValue, Tail(refItems), tick,
             ReferenceSliceCandidate(gen, structTypeName, isPointerSlice, idValue,
                                     Head(refItems), tick, acc))

\* generateReferenceSlice, for i := range srcValue.Len()
RECURSIVE ReferenceSliceLoop(_, _, _, _, _, _, _)
ReferenceSliceLoop(gen, structTypeName, isPointerSlice, srcItems, refItems, tick, acc) ==
    IF srcItems = <<>> THEN acc
    ELSE ReferenceSliceLoop(gen, structTypeName, isPointerSlice, Tail(srcItems), refItems, tick,
             ReferenceSliceScan(gen, structTypeName, isPointerSlice, Head(srcItems).s,
                                refItems, tick, acc))

\* sliceStmt.ValuesFunc(...)
SliceLiteral(sliceStmt, r) == [stmt |-> JValues(sliceStmt, r.stmts), now |-> r.now]

generateReferenceSlice(gen, srcValue, targetType, now, tick) ==
    LET isPointerSlice == targetType.elem.k = "ptr"
        refType == IF isPointerSlice THEN targetType.elem.elem ELSE targetType.elem
        structTypeName == refType.name
        named == IF useQualified(gen, refType.pkg)
                 THEN JQual(refType.pkg, structTypeName)
                 ELSE JId(structTypeName)
        sliceStmt == JIndex(IF isPointerSlice THEN JStar(named) ELSE named)
    IN  IF structTypeName \notin DOMAIN gen.Refs
        THEN [stmt |-> JValues(sliceStmt, <<>>), now |-> now]
        ELSE IF gen.Refs[structTypeName].k # "slice"
        THEN [stmt |-> JValues(sliceStmt, <<>>), now |-> now]
        ELSE SliceLiteral(sliceStmt,
                 ReferenceSliceLoop(gen, structTypeName, isPointerSlice, srcValue.items,
                                    gen.Refs[structTypeName].items, tick,
                                    [stmts |-> <<>>, now |-> now]))

\* a statement that is there: <<statement>>
Found(r) == [stmt |-> <<r.stmt>>, now |-> r.now]

\* the scan that keeps looking after a match: the last matching record wins
RECURSIVE ReferenceSingleScanLast(_, _, _, _, _, _, _)
ReferenceSingleScanLast(gen, structTypeName, isPointer, idValue, refItems, now, tick) ==
    IF refItems = <<>> THEN [stmt |-> <<>>, now |-> now]
    ELSE IF AnyIdentifierFieldMatches(DerefStruct(refItems[Len(refItems)]),
                                      gen.IdentifierFields, idValue)
    THEN Found(ReferenceTo(gen, structTypeName, DerefStruct(refItems[Len(refItems)]),
                           isPointer, now, tick))
    ELSE ReferenceSingleScanLast(gen, structTypeName, isPointer, idValue,
                                 SubSeq(refItems, 1, Len(refItems) - 1), now, tick)

\* generateReferenceSingle, for j := range refData.Len(): returns at the
\* first record with a matching identifier field; <<>> when none matches
RECURSIVE ReferenceSingleScan(_, _, _, _, _, _, _)
ReferenceSingleScan(gen, structTypeName, isPointer, idValue, refItems, now, tick) ==
    IF refItems = <<>> THEN [stmt |-> <<>>, now |-> now]
    ELSE IF AnyIdentifierFieldMatches(DerefStruct(Head(refItems)), gen.IdentifierFields, idValue)
    THEN Found(ReferenceTo(gen, structTypeName, DerefStruct(Head(refItems)),
                           isPointer, now, tick))
    ELSE ReferenceSingleScan(gen, structTypeName, isPointer, idValue,
                             Tail(refItems), now, tick)

\* nil where the placeholder should be
OrNil(zero, r) ==
    IF r.stmt # <<>> THEN [stmt |-> r.stmt[1], now |-> r.now]
    ELSE [stmt |-> JNil, now |-> r.now]

\* the zero-valued placeholder when the scan found no record
OrPlaceholder(zero, r) ==
    IF r.stmt # <<>> THEN [stmt |-> r.stmt[1], now |-> r.now]
    ELSE [stmt |-> zero, now |-> r.now]

generateReferenceSingle(gen, srcValue, targetType, now, tick) ==
    LET isPointer == targetType.k = "ptr"
        structTypeName == IF isPointer THEN targetType.elem.name ELSE targetType.name
        zero == IF isPointer
                THEN JAddr(JValues(JId(structTypeName), <<>>))
                ELSE JValues(JId(structTypeName), <<>>)
    IN  IF structTypeName \notin DOMAIN gen.Refs
        THEN [stmt |-> zero, now |-> now]
        ELSE IF gen.Refs[structTypeName].k # "slice"
        THEN [stmt |-> zero, now |-> now]
        ELSE OrPlaceholder(zero,
                 ReferenceSingleScan(gen, structTypeName, isPointer, srcValue.s,
                                     gen.Refs[structTypeName].items, now, tick))

\* generateStructGenField: <<statement>>, or <<>> for the nil statement
generateStructGenField(gen, structValue, srcFieldName, targetField, now, tick) ==
    LET srcField == TypeFieldByName(structValue.fields, srcFieldName)
        srcValue == FieldByName(structValue, srcFieldName)
        targetType == targetField.type
    IN  IF srcField = <<>> THEN [stmt |-> <<>>, now |-> now]
        ELSE IF ~IsValid(srcValue) THEN [stmt |-> <<>>, now |-> now]
        ELSE IF /\ targetType.k = "slice"
                /\ IsStructOrPtrToStruct(targetType.elem)
                /\ srcField[1].type.k = "slice"
                /\ srcField[1].type.elem.k = "string"
        THEN Found(generateReferenceSlice(gen, srcValue, targetType, now, tick))
        ELSE IF /\ IsStructOrPtrToStruct(targetType)
                /\ srcField[1].type.k = "string"
        THEN Found(generateReferenceSingle(gen, srcValue, targetType, now, tick))
        ELSE [stmt |-> <<>>, now |-> now]

\* ------------------------------------------------------------------------
\* The literal emitter: getValueStatement and generateStructValues (values.go)
\* ------------------------------------------------------------------------
RECURSIVE getValueStatement(_, _, _, _)
RECURSIVE ValueStatements(_, _, _, _)
RECURSIVE StructFirstPass(_, _, _, _, _)
RECURSIVE StructSecondPass(_, _, _, _, _)
RECURSIVE generateStructValues(_, _, _, _)
RECURSIVE EmbeddedFields(_, _, _, _, _)

\* the elements of an array or slice, in order
ValueStatements(gen, items, tick, acc) ==
    IF items = <<>> THEN acc
    ELSE ValueStatements(gen, Tail(items), tick,
             PushStatement(acc, getValueStatement(gen, Head(items), acc.now, tick)))

\* typeStmt.ValuesFunc adding the jen.Dict of generateStructValues
StructLiteral(typeStmt, r) == [stmt |-> JDictValues(typeStmt, r.dict), now |-> r.now]

\* Op("&").Add(...)
AddressOf(r) == [stmt |-> JAddr(r.stmt), now |-> r.now]

getValueStatement(gen, value, now, tick) ==
    CASE value.k = "bool" -> [stmt |-> JLitBool(value.b), now |-> now]
      [] value.k = "int" -> [stmt |-> JLitInt(value.n), now |-> now]
      [] value.k = "string" -> [stmt |-> JLitString(value.s), now |-> now]
      [] value.k = "slice" ->
           SliceLiteral(JIndex(getTypeStatement(gen, value.type.elem)),
                        ValueStatements(gen, value.items, tick, [stmts |-> <<>>, now |-> now]))
      [] value.k = "struct" /\ value.type = TTime ->
           [stmt |-> JTimeDate(value.wall), now |-> now]
      [] value.k = "struct" /\ value.type # TTime ->
           StructLiteral(IF useQualified(gen, value.type.pkg)
                         THEN JQual(value.type.pkg, value.type.name)
                         ELSE JId(value.type.name),
                         generateStructValues(gen, value, now, tick))
      [] value.k = "ptr" ->
           IF value.to = <<>> THEN [stmt |-> JNil, now |-> now]
           ELSE AddressOf(getValueStatement(gen, Elem(value), now, tick))

\* dict[jen.Id(fieldType.Name)] = g.getValueStatement(field)
PutValue(acc, name, r) == [acc EXCEPT !.dict = (name :> r.stmt) @@ @, !.now = r.now]

\* the fields of an embedded struct of another package: for j := range
\* field.NumField(), innerDict[jen.Id(innerFieldType.Name)] =
\* g.getValueStatement(innerField) for every exported field
EmbeddedFields(gen, field, innerFields, tick, acc) ==
    IF innerFields = <<>> THEN acc
    ELSE EmbeddedFields(gen, field, Tail(innerFields), tick,
             IF ~Head(innerFields).exported THEN acc
             ELSE PutValue(acc, Head(innerFields).name,
                           getValueStatement(gen, field.f[Head(innerFields).name],
                                             acc.now, tick)))

\* the first pass that gives an embedded struct to getValueStatement, of
\* whatever package it is
StructFirstPassFieldPlain(gen, structValue, fieldType, tick, acc) ==
    IF ~fieldType.exported THEN acc
    ELSE IF fieldType.tag # "" THEN [acc EXCEPT !.deferred = Append(@, fieldType)]
    ELSE PutValue(acc, fieldType.name,
                  getValueStatement(gen, structValue.f[fieldType.name], acc.now, tick))

\* first pass, one field: an unexported field is skipped, a field with a
\* structgen tag is deferred, an embedded struct of another package is
\* emitted field by field in export mode, any other field is emitted by
\* getValueStatement
StructFirstPassField(gen, structValue, fieldType, tick, acc) ==
    IF ~fieldType.exported THEN acc
    ELSE IF fieldType.tag # "" THEN [acc EXCEPT !.deferred = Append(@, fieldType)]
    ELSE IF /\ fieldType.anonymous
            /\ isExportMode(gen)
            /\ fieldType.type.k = "struct"
            /\ useQualified(gen, fieldType.type.pkg)
    THEN PutValue(acc, fieldType.name,
                  StructLiteral(JQual(fieldType.type.pkg, fieldType.type.name),
                                EmbeddedFields(gen, structValue.f[fieldType.name],
                                               structValue.f[fieldType.name].fields, tick,
                                               [dict |-> <<>>, now |-> acc.now])))
    ELSE PutValue(acc, fieldType.name,
                  getValueStatement(gen, structValue.f[fieldType.name], acc.now, tick))

StructFirstPass(gen, structValue, fields, tick, acc) ==
    IF fields = <<>> THEN acc
    ELSE StructFirstPass(gen, structValue, Tail(fields), tick,
             StructFirstPassField(gen, structValue, Head(fields), tick, acc))

\* dict[jen.Id(df.fieldType.Name)] = value without the nil check
PutReferenceUnchecked(acc, name, r) ==
    [acc EXCEPT !.dict = (name :> (IF r.stmt # <<>> THEN r.stmt[1] ELSE JNil)) @@ @,
                !.now = r.now]

\* if value != nil { dict[jen.Id(df.fieldType.Name)] = value }
PutReference(acc, name, r) ==
    [acc EXCEPT !.dict = IF r.stmt # <<>> THEN (name :> r.stmt[1]) @@ @ ELSE @,
                !.now = r.now]

\* second pass: the deferred fields, in declaration order
StructSecondPass(gen, structValue, deferred, tick, acc) ==
    IF deferred = <<>> THEN acc
    ELSE StructSecondPass(gen, structValue, Tail(deferred), tick,
             PutReference(acc, Head(deferred).name,
                 generateStructGenField(gen, structValue, Head(deferred).tag,
                                        Head(deferred), acc.now, tick)))

SecondPassAfter(gen, structValue, tick, first) ==
    StructSecondPass(gen, structValue, first.deferred, tick, first)

\* the jen.Dict of a struct value, as a function of the emitted field names
generateStructValues(gen, value, now, tick) ==
    SecondPassAfter(gen, DerefStruct(value), tick,
        StructFirstPass(gen, DerefStruct(value), DerefStruct(value).fields, tick,
                        [dict |-> <<>>, deferred |-> <<>>, now |-> now]))

\* ------------------------------------------------------------------------
\* The per-dataset emitters: generateConstants, generateVariables,
\* generateSlice.  A top-level declaration of the jen.File is a record with
\* a field d.  acc carries the declarations added so far and the clock.
\* ------------------------------------------------------------------------
\* strings.ToLower(fieldName) == "id"
IsIDFieldName(name) == name \in {"ID", "Id", "iD", "id"}

RECURSIVE FirstIDFieldName(_)
FirstIDFieldName(fields) ==
    IF fields = <<>> THEN <<>>
    ELSE IF IsIDFieldName(Head(fields).name) THEN <<Head(fields).name>>
    ELSE FirstIDFieldName(Tail(fields))

\* constName := g.ConstantIdent + slugToIdentifier(identValue) + "ID"
PushConstant(gen, acc, idValue, id) ==
    [defs |-> Append(acc.defs,
                     [name |-> gen.ConstantIdent \o slugToIdentifier(id.ident) \o <<"I","D">>,
                      value |-> JLitString(idValue)]),
     now |-> id.now]

\* the loop body that numbers a generated ID with the index counted from 0
ConstantOfZeroBased(gen, elem, i, idFieldName, tick, acc) ==
    LET idField == FieldByName(elem, idFieldName)
    IN  IF IsValid(idField) /\ idField.k = "string"
        THEN PushConstant(gen, acc,
                          IF idField.s = <<>>
                          THEN ToLower(gen.TypeName) \o <<"-">> \o Itoa(i - 1)
                          ELSE idField.s,
                          getStructIdentifier(gen, elem, acc.now, tick))
        ELSE acc

\* generateConstants, the body of for i := range dataValue.Len(); i counts
\* from 1 here, so the generated ID of an empty one ends in i
ConstantOf(gen, elem, i, idFieldName, tick, acc) ==
    LET idField == FieldByName(elem, idFieldName)
    IN  IF IsValid(idField) /\ idField.k = "string"
        THEN PushConstant(gen, acc,
                          IF idField.s = <<>>
                          THEN ToLower(gen.TypeName) \o <<"-">> \o Itoa(i)
                          ELSE idField.s,
                          getStructIdentifier(gen, elem, acc.now, tick))
        ELSE acc

RECURSIVE ConstantsLoop(_, _, _, _, _, _)
ConstantsLoop(gen, items, i, idFieldName, tick, acc) ==
    IF i > Len(items) THEN acc
    ELSE ConstantsLoop(gen, items, i + 1, idFieldName, tick,
             ConstantOf(gen, DerefStruct(items[i]), i, idFieldName, tick, acc))

\* g.File.Const().DefsFunc(...)
PushConstGroup(acc, r) ==
    [decls |-> Append(acc.decls, [d |-> "const", defs |-> r.defs]), now |-> r.now]

generateConstants(gen, dataValue, tick, acc) ==
    LET idFieldName == FirstIDFieldName(DerefStruct(dataValue.items[1]).fields)
    IN  IF idFieldName = <<>> THEN acc
        ELSE PushConstGroup(acc,
                 ConstantsLoop(gen, dataValue.items, 1, idFieldName[1], tick,
                               [defs |-> <<>>, now |-> acc.now]))

StructTypeOf(elem) ==
    IF elem.k = "struct" THEN <<elem.type>>
    ELSE IF elem.k = "ptr" /\ Elem(elem).k = "struct" THEN <<Elem(elem).type>>
    ELSE <<>>

\* the declarations typed with g.TypeName whatever the package of the type
DatasetTypeStatementBare(gen, structType) == JId(gen.TypeName)

\* the type a dataset's declarations are given (generateVariables,
\* generateSlice): structType is <<type>>, or <<>> when the element is
\* neither a struct nor a pointer to one
DatasetTypeStatement(gen, structType) ==
    IF structType # <<>> /\ useQualified(gen, structType[1].pkg)
    THEN IF Contains(gen.TypeName, ".")
         THEN JId(gen.TypeName)
         ELSE JQual(structType[1].pkg, structType[1].name)
    ELSE JId(gen.TypeName)

\* g.File.Var().Id(varName).Op("=").Add(typeStmt).ValuesFunc(...)
PushVariable(acc, varName, typeStmt, r) ==
    [decls |-> Append(acc.decls, [d |-> "var", name |-> varName,
                                  value |-> JDictValues(typeStmt, r.dict)]),
     now |-> r.now]

\* varName := g.VarPrefix + slugToIdentifier(identValue)
VariableOf(gen, elem, tick, acc, id) ==
    PushVariable(acc, gen.VarPrefix \o slugToIdentifier(id.ident),
                 DatasetTypeStatement(gen, StructTypeOf(elem)),
                 generateStructValues(gen, elem, id.now, tick))

\* generateVariables, for i := range dataValue.Len()
RECURSIVE generateVariables(_, _, _, _)
generateVariables(gen, items, tick, acc) ==
    IF items = <<>> THEN acc
    ELSE generateVariables(gen, Tail(items), tick,
             VariableOf(gen, Head(items), tick, acc,
                        getStructIdentifier(gen, Head(items), acc.now, tick)))

\* the name of the "all records" collection
SliceName(typeName) ==
    LET last == typeName[Len(typeName)]
    IN  IF \/ last \in {"s", "x", "z"}
           \/ HasSuffix(typeName, <<"s","h">>)
           \/ HasSuffix(typeName, <<"c","h">>)
        THEN <<"A","l","l">> \o typeName \o <<"e","s">>
        ELSE IF last = "y"
        THEN <<"A","l","l">> \o SubSeq(typeName, 1, Len(typeName) - 1) \o <<"i","e","s">>
        ELSE <<"A","l","l">> \o typeName \o <<"s">>

\* group.Op("&").Id(varName)
PushSliceEntry(gen, acc, id) ==
    [stmts |-> Append(acc.stmts, JAddr(JId(gen.VarPrefix \o slugToIdentifier(id.ident)))),
     now |-> id.now]

\* generateSlice, for i := range dataValue.Len()
RECURSIVE SliceLoop(_, _, _, _)
SliceLoop(gen, items, tick, acc) ==
    IF items = <<>> THEN acc
    ELSE SliceLoop(gen, Tail(items), tick,
             PushSliceEntry(gen, acc, getStructIdentifier(gen, Head(items), acc.now, tick)))

PushSlice(acc, sliceName, typeStmt, r) ==
    [decls |-> Append(acc.decls, [d |-> "var", name |-> sliceName,
                                  value |-> JValues(JIndex(JStar(typeStmt)), r.stmts)]),
     now |-> r.now]

generateSlice(gen, dataValue, tick, acc) ==
    PushSlice(acc, SliceName(gen.TypeName),
              DatasetTypeStatement(gen, IF Len(dataValue.items) > 0
                                        THEN StructTypeOf(dataValue.items[1])
                                        ELSE <<>>),
              SliceLoop(gen, dataValue.items, tick, [stmts |-> <<>>, now |-> acc.now]))

\* generateConstants, generateVariables and generateSlice of one dataset, in
\* this order, under the configuration gen: the declarations and the clock
EmitDataset(gen, dataValue, now, tick) ==
    generateSlice(gen, dataValue, tick,
        generateVariables(gen, dataValue.items, tick,
            generateConstants(gen, dataValue, tick, [decls |-> <<>>, now |-> now])))

\* ------------------------------------------------------------------------
\* Generator, NewGenerator, inferConfig (generator.go)
\* ------------------------------------------------------------------------
DefaultIdentifierFields == <<"ID", "Name", "Slug", "Title", "Key", "Code">>

\* NewGenerator(opts...): the defaults, then the options applied
NewGenerator(idFields, customFn) ==
    [PackageName |-> <<>>, TypeName |-> <<>>, ConstantIdent |-> <<>>,
     VarPrefix |-> <<>>, OutputFile |-> <<>>,
     IdentifierFields |-> idFields, CustomVarNameFn |-> customFn,
     Data |-> VInvalid, Refs |-> <<>>, File |-> <<>>]

\* WithPackageName, WithTypeName, WithConstantIdent, WithVarPrefix and
\* WithOutputFile applied to a Generator: explicit gives the string of each
\* option, <<>> for an option that is not passed
WithOptions(gen, explicit) ==
    [gen EXCEPT !.PackageName = explicit.PackageName,
                !.TypeName = explicit.TypeName,
                !.ConstantIdent = explicit.ConstantIdent,
                !.VarPrefix = explicit.VarPrefix,
                !.OutputFile = explicit.OutputFile]

\* strings.Split(s, sep) for a one-character separator
RECURSIVE SplitFrom(_, _, _, _)
SplitFrom(s, sep, part, acc) ==
    IF s = <<>> THEN Append(acc, part)
    ELSE IF Head(s) = sep THEN SplitFrom(Tail(s), sep, <<>>, Append(acc, part))
    ELSE SplitFrom(Tail(s), sep, Append(part, Head(s)), acc)

\* GetPackageNameFromPath of a clean relative path: the last component of
\* filepath.Dir, which is "." for a path without a directory
GetPackageNameFromPath(filePath) ==
    LET parts == SplitFrom(filePath, "/", <<>>, <<>>)
        dir == IF Len(parts) > 1 THEN SubSeq(parts, 1, Len(parts) - 1) ELSE << <<".">> >>
    IN  dir[Len(dir)]

GeneratedSuffix == <<"_","g","e","n","e","r","a","t","e","d",".","g","o">>

\* g.TypeName = typeName without the test for an unset value
InferTypeNameOverriding(gen, typeName) == [gen EXCEPT !.TypeName = typeName]

InferTypeName(gen, typeName) ==
    IF gen.TypeName = <<>> THEN [gen EXCEPT !.TypeName = typeName] ELSE gen

InferConstantIdent(gen) ==
    IF gen.ConstantIdent = <<>> THEN [gen EXCEPT !.ConstantIdent = gen.TypeName] ELSE gen

InferVarPrefix(gen) ==
    IF gen.VarPrefix = <<>> THEN [gen EXCEPT !.VarPrefix = gen.TypeName] ELSE gen

InferOutputFile(gen) ==
    IF gen.OutputFile = <<>>
    THEN [gen EXCEPT !.OutputFile = ToLower(gen.TypeName) \o GeneratedSuffix]
    ELSE gen

InferPackageName(gen) ==
    IF gen.PackageName = <<>>
    THEN [gen EXCEPT !.PackageName = GetPackageNameFromPath(gen.OutputFile)]
    ELSE gen

\* inferConfig without the check of the kind of the data
inferConfigAcceptingNonSequences(gen, data) ==
    IF data.k # "slice" THEN [err |-> "", gen |-> gen]
    ELSE IF Len(data.items) = 0 THEN [err |-> "EmptyError", gen |-> gen]
    ELSE IF StructTypeOf(data.items[1]) = <<>> THEN [err |-> "InvalidTypeError", gen |-> gen]
    ELSE [err |-> "",
          gen |-> InferPackageName(InferOutputFile(InferVarPrefix(InferConstantIdent(
                      InferTypeName(gen, StructTypeOf(data.items[1])[1].name)))))]

\* inferConfig: the error ("" for nil) and the generator afterwards
inferConfig(gen, data) ==
    IF data.k # "slice" THEN [err |-> "InvalidTypeError", gen |-> gen]
    ELSE IF Len(data.items) = 0 THEN [err |-> "EmptyError", gen |-> gen]
    ELSE IF StructTypeOf(data.items[1]) = <<>> THEN [err |-> "InvalidTypeError", gen |-> gen]
    ELSE [err |-> "",
          gen |-> InferPackageName(InferOutputFile(InferVarPrefix(InferConstantIdent(
                      InferTypeName(gen, StructTypeOf(data.items[1])[1].name)))))]

\* Generate, for i, ref := range refs (i counts from 0): the Refs map built
\* so far, and whether reflect.TypeOf(ref).Kind() panicked on an untyped nil
RECURSIVE BuildRefs(_, _, _)
BuildRefs(refs, i, acc) ==
    IF i >= Len(refs) THEN [Refs |-> acc, panic |-> FALSE]
    ELSE LET ref == refs[i + 1]
         IN  IF ref.k = "invalid" THEN [Refs |-> acc, panic |-> TRUE]
             ELSE IF ref.k # "slice" THEN BuildRefs(refs, i + 1, acc)
             ELSE LET elemType == ref.type.elem
                      key == IF elemType.k = "struct" THEN elemType.name
                             ELSE IF elemType.k = "ptr" /\ elemType.elem.k = "struct"
                             THEN elemType.elem.name
                             ELSE <<"R","e","f">> \o Itoa(i)
                  IN  BuildRefs(refs, i + 1, (key :> ref) @@ acc)

\* the guard of the loop over g.Refs: a non-empty slice whose first element
\* is a struct or a non-nil pointer to one
IsEmittableRef(refData) ==
    /\ refData.k = "slice"
    /\ Len(refData.items) > 0
    /\ StructTypeOf(refData.items[1]) # <<>>

\* g.TypeName = typeName; g.VarPrefix = typeName; g.ConstantIdent = typeName
SwapConfig(gen, typeName) ==
    [gen EXCEPT !.TypeName = typeName, !.VarPrefix = typeName, !.ConstantIdent = typeName]

\* the loop body that does not put the original values back
RestoreConfigForgotten(gen, original) == gen

\* g.TypeName = originalTypeName; g.VarPrefix = originalVarPrefix;
\* g.ConstantIdent = originalConstantIdent
RestoreConfig(gen, original) ==
    [gen EXCEPT !.TypeName = original.TypeName, !.VarPrefix = original.VarPrefix,
                !.ConstantIdent = original.ConstantIdent]

\* the loop body without its guard around generateSlice: a dataset that is
\* skipped still gets its collection
EmitReferenceDatasetUnguarded(gen, typeName, now, tick) ==
    IF IsEmittableRef(gen.Refs[typeName])
    THEN EmitDataset(SwapConfig(gen, typeName), gen.Refs[typeName], now, tick)
    ELSE [decls |-> <<[d |-> "var", name |-> SliceName(typeName),
                       value |-> JValues(JIndex(JStar(JId(typeName))), <<>>)]>>,
          now |-> now]

\* the body of the loop over g.Refs for one entry: TypeName, VarPrefix and
\* ConstantIdent are set to the key while the dataset is emitted
EmitReferenceDataset(gen, typeName, now, tick) ==
    IF IsEmittableRef(gen.Refs[typeName])
    THEN EmitDataset(SwapConfig(gen, typeName), gen.Refs[typeName], now, tick)
    ELSE [decls |-> <<>>, now |-> now]

\* ------------------------------------------------------------------------
\* generateInitFunction (reference.go): the init() function that fills the
\* tagged sequence fields after all declarations.  No statement of Generate
\* calls it.
\* ------------------------------------------------------------------------
\* a field the function fills: exported, tagged, a sequence of structs or
\* of pointers to structs
IsInitField(field) ==
    /\ field.exported
    /\ field.tag # ""
    /\ field.type.k = "slice"
    /\ IsStructOrPtrToStruct(field.type.elem)

\* "All" + name + "s", with the two irregular plurals the function knows
InitSliceName(typeName) ==
    IF typeName = <<"E","n","t","r","y">> THEN <<"A","l","l","E","n","t","r","i","e","s">>
    ELSE IF typeName = <<"C","a","t","e","g","o","r","y">>
    THEN <<"A","l","l","C","a","t","e","g","o","r","i","e","s">>
    ELSE <<"A","l","l">> \o typeName \o <<"s">>

FieldRef(field) ==
    [fieldName |-> field.name,
     srcField |-> field.tag,
     targetType |-> IF field.type.elem.k = "ptr"
                    THEN field.type.elem.elem.name ELSE field.type.elem.name,
     targetSlice |-> InitSliceName(IF field.type.elem.k = "ptr"
                                   THEN field.type.elem.elem.name ELSE field.type.elem.name),
     isPointer |-> field.type.elem.k = "ptr"]

\* the fieldRefs of a struct type, in field order
RECURSIVE InitFieldRefs(_)
InitFieldRefs(fields) ==
    IF fields = <<>> THEN <<>>
    ELSE IF IsInitField(Head(fields))
    THEN <<FieldRef(Head(fields))>> \o InitFieldRefs(Tail(fields))
    ELSE InitFieldRefs(Tail(fields))

\* refMap: the kinds of g.Refs that have such fields
InitRefMap(gen) ==
    [typeName \in { k \in DOMAIN gen.Refs :
                        /\ IsEmittableRef(gen.Refs[k])
                        /\ InitFieldRefs(DerefStruct(gen.Refs[k].items[1]).fields) # <<>> }
        |-> InitFieldRefs(DerefStruct(gen.Refs[typeName].items[1]).fields)]

\* the declaration the function adds to the file: <<>> when refMap is empty
generateInitFunction(gen) ==
    IF DOMAIN InitRefMap(gen) = {} THEN <<>>
    ELSE <<[d |-> "func", name |-> <<"i","n","i","t">>, refMap |-> InitRefMap(gen),
            allSliceName |-> [typeName \in DOMAIN InitRefMap(gen) |-> InitSliceName(typeName)]]>>

\* ------------------------------------------------------------------------
\* The datasets the model calls Generate with
\* ------------------------------------------------------------------------
MaxRecords == 2

MaxSources == 2

SeqsUpTo(S, n) == UNION { [1..k -> S] : k \in 0..n }

SGo == <<"g","o">>

ST1 == <<"t","-","1">>

SZz == <<"z","z">>

SP1 == <<"p","-","1">>

TagType == TStruct(TagName, MainPkg)

PostType == TStruct(PostName, MainPkg)

UserType == TStruct(UserName, MainPkg)

TagFields ==
    <<SField("ID", TString, ""), SField("Slug", TString, ""), SField("Code", TInt, "")>>

Tag(id, slug) ==
    VStruct(TagType, TagFields,
            [ID |-> VString(id), Slug |-> VString(slug), Code |-> VInt(0)])

UserFields == <<SField("Name", TString, "")>>

User(name) == VStruct(UserType, UserFields, [Name |-> VString(name)])

\* the records reference datasets are made of: two that match "go" through
\* different identifier fields, and one whose string fields are all empty
TagRecords == { Tag(ST1, SGo), Tag(SGo, ST1), Tag(<<>>, <<>>) }

\* the tagged field Link of Post: its type and the source field its tag names
LinkShapes ==
    { <<TSlice(TPtr(TagType)), "Refs">>, <<TSlice(TagType), "Refs">>,
      <<TPtr(TagType), "Ref">>, <<TagType, "Ref">>,
      <<TSlice(TPtr(TagType)), "Ref">>, <<TPtr(TagType), "Refs">>,
      <<TInt, "Ref">>, <<TSlice(TString), "Refs">>,
      <<TPtr(TagType), "Num">>, <<TSlice(TagType), "Missing">> }

\* the zero value of a Link field (a tagged field's own value is never read)
ZeroValue(t) ==
    CASE t.k = "int" -> VInt(0)
      [] t.k = "slice" -> VSlice(t.elem, <<>>)
      [] t.k = "ptr" -> VNilPtr(t.elem)
      [] t.k = "struct" -> Tag(<<>>, <<>>)

PostFields(shape) ==
    <<SField("ID", TString, ""), SField("Ref", TString, ""),
      SField("Refs", TSlice(TString), ""), SField("Num", TInt, ""),
      SField("Link", shape[1], shape[2])>>

Post(shape, ref, refs) ==
    VStruct(PostType, PostFields(shape),
            [ID |-> VString(SP1), Ref |-> VString(ref),
             Refs |-> VSlice(TString, [i \in 1..Len(refs) |-> VString(refs[i])]),
             Num |-> VInt(0), Link |-> ZeroValue(shape[1])])

SourceStrings == { <<>>, SGo, SZz }

\* the shapes generateStructGenField resolves: a sequence of references from
\* a sequence of identifiers, a single reference from one identifier
SequenceShapes == { <<TSlice(TPtr(TagType)), "Refs">>, <<TSlice(TagType), "Refs">> }

SingleShapes == { <<TPtr(TagType), "Ref">>, <<TagType, "Ref">> }

SupportedShapes == SequenceShapes \cup SingleShapes

\* the identifier sequences of a Post
SequenceSources == SeqsUpTo({SGo, SZz}, MaxSources) \cup { << <<>> >> }

\* primary datasets that pass validation: one Post, by value or by pointer
ValidPrimaries ==
    { VSlice(PostType, <<Post(shape, ref, <<>>)>>) :
          shape \in SingleShapes, ref \in SourceStrings }
        \cup { VSlice(PostType, <<Post(shape, <<>>, refs)>>) :
                   shape \in SequenceShapes, refs \in SequenceSources }
        \cup { VSlice(PostType, <<Post(shape, SGo, <<SGo>>)>>) :
                   shape \in LinkShapes \ SupportedShapes }
        \cup { VSlice(TPtr(PostType), <<VPtr(Post(shape, SGo, <<SGo, SZz>>))>>) :
                   shape \in SupportedShapes }

\* primary data that fails validation: not a sequence, untyped nil, an empty
\* sequence, a sequence of strings, a sequence that starts with a nil pointer
InvalidPrimaries ==
    { VString(SGo), VInvalid, VSlice(PostType, <<>>),
      VSlice(TString, <<VString(SGo)>>),
      VSlice(TPtr(PostType), <<VNilPtr(PostType)>>) }

TagDatasets == { VSlice(TagType, items) : items \in SeqsUpTo(TagRecords, MaxRecords) }

TagPtrDatasets ==
    { VSlice(TPtr(TagType), <<VPtr(Tag(ST1, SGo)), VPtr(Tag(SGo, ST1))>>) }

UserDatasets == { VSlice(UserType, <<User(SGo)>>) }

\* reference data that is no dataset: not a sequence, a sequence of strings
InvalidRefs == { VString(SGo), VSlice(TString, <<VString(SGo)>>) }

\* the reference arguments of a call: none, one, or two of which the first
\* is a dataset of another kind, a dataset of the same kind, or no dataset
RefArguments ==
    { <<>> }
        \cup { <<r>> : r \in TagDatasets \cup TagPtrDatasets \cup InvalidRefs \cup {VInvalid} }
        \cup { <<r1, VSlice(TagType, <<Tag(ST1, SGo)>>)>> :
                   r1 \in UserDatasets \cup InvalidRefs
                              \cup { VSlice(TagType, <<Tag(SGo, ST1)>>) } }
        \cup { <<VSlice(TagType, <<Tag(ST1, SGo)>>), r2>> : r2 \in InvalidRefs \cup {VInvalid} }

SP2 == <<"p","-","2">>

\* a Post whose tagged field refers to Posts: []*Post from Refs, *Post from
\* Ref
SelfShapes == { <<TSlice(TPtr(PostType)), "Refs">>, <<TPtr(PostType), "Ref">> }

PostWithID(id, shape, ref, refs) ==
    [Post(shape, ref, refs) EXCEPT !.f.ID = VString(id)]

\* two Posts that name each other, the first of which also names itself
SelfReferringPosts ==
    { VSlice(PostType, <<PostWithID(SP1, shape, SP1, <<SP1, SP2>>),
                         PostWithID(SP2, shape, SP1, <<SP1>>)>>) :
          shape \in SelfShapes }

\* noon of 1 January 2024, in UTC and in a zone two hours east of it
Noon == <<2024, 1, 1, 12, 0, 0, 0>>

Times == { VTime(Noon, 0), VTime(Noon, 2) }

\* a Post with a field At time.Time
PostAt(at) ==
    [Post(<<TSlice(TPtr(TagType)), "Refs">>, SGo, <<SGo>>)
        EXCEPT !.fields = @ \o <<SField("At", TTime, "")>>,
               !.f = ("At" :> at) @@ @]

TimedPosts == { VSlice(PostType, <<PostAt(at)>>) : at \in Times }

\* the kinds Post, Tag and User as another package defines them
PkgPath == <<"e","x","/","p","k","g">>

PkgPostType == TStruct(PostName, PkgPath)

PkgTagType == TStruct(TagName, PkgPath)

PkgUserType == TStruct(UserName, PkgPath)

PkgUser == VStruct(PkgUserType, UserFields, [Name |-> VString(SGo)])

\* the struct the records of that package embed: the slugs of its Tags and
\* the tagged field that refers to them
EmbeddedType == TStruct(<<"E","m","b","e","d","d","e","d">>, PkgPath)

EmbeddedFieldsOf ==
    <<SField("TagSlugs", TSlice(TString), ""),
      SField("Tags", TSlice(TPtr(PkgTagType)), "TagSlugs")>>

Embedded(slugs) ==
    VStruct(EmbeddedType, EmbeddedFieldsOf,
            [TagSlugs |-> VSlice(TString, [i \in 1..Len(slugs) |-> VString(slugs[i])]),
             Tags |-> VSlice(TPtr(PkgTagType), <<>>)])

\* a Post of that package: its Link refers to the package's Tags, and it
\* holds a time, a User, a sequence of Users and the embedded struct, whose
\* Tags are those with the identifier "t-1"
PkgPost ==
    [Post(<<TSlice(TPtr(PkgTagType)), "Refs">>, SGo, <<SGo>>)
        EXCEPT !.type = PkgPostType,
               !.fields = @ \o <<SField("At", TTime, ""),
                                 SField("Author", PkgUserType, ""),
                                 SField("Editors", TSlice(PkgUserType), ""),
                                 SEmbedded("Embedded", EmbeddedType)>>,
               !.f = [At |-> VTime(Noon, 0), Author |-> PkgUser,
                      Editors |-> VSlice(PkgUserType, <<PkgUser>>),
                      Embedded |-> Embedded(<<ST1>>)] @@ @]

PkgTags == VSlice(PkgTagType, <<[Tag(ST1, SGo) EXCEPT !.type = PkgTagType]>>)

\* a Tag that lists the Posts it is used by
TagWithPostsFields ==
    TagFields \o <<SField("PostIDs", TSlice(TString), ""),
                   SField("Posts", TSlice(TPtr(PostType)), "PostIDs")>>

TagWithPosts(id, slug, postIDs) ==
    VStruct(TagType, TagWithPostsFields,
            [ID |-> VString(id), Slug |-> VString(slug), Code |-> VInt(0),
             PostIDs |-> VSlice(TString, [i \in 1..Len(postIDs) |-> VString(postIDs[i])]),
             Posts |-> VSlice(TPtr(PostType), <<>>)])

\* a Post and a Tag that refer to each other
MutualPosts ==
    VSlice(PostType, <<Post(<<TSlice(TPtr(TagType)), "Refs">>, <<>>, <<ST1>>)>>)

MutualTags == VSlice(TagType, <<TagWithPosts(ST1, SGo, <<SP1>>)>>)

\* two Tags whose identifiers differ in case and in a dash only
CollidingTags ==
    VSlice(TagType, <<Tag(ST1, SGo), Tag(<<"T","1">>, <<"G","o">>)>>)

\* the calls of Generate: the primary data and the reference arguments.
\* Any primary goes with any reference arguments; Posts that refer to Posts
\* are passed as their own reference dataset; Posts and Tags that refer to
\* each other are passed with the Posts among the reference datasets; Tags
\* with near-equal identifiers are passed as the reference dataset of a Post;
\* Posts with a time are passed alone
\* a Post with a dataset without an ID field and one whose second record
\* has an empty ID
UsersAndTagsCall ==
    <<VSlice(PostType, <<Post(<<TPtr(TagType), "Ref">>, SGo, <<>>)>>),
      <<VSlice(UserType, <<User(SGo)>>),
        VSlice(TagType, <<Tag(ST1, SGo), Tag(<<>>, <<>>)>>)>> >>

Calls ==
    ((ValidPrimaries \cup InvalidPrimaries) \X RefArguments)
        \cup { <<posts, <<posts>> >> : posts \in SelfReferringPosts }
        \cup { <<MutualPosts, <<MutualTags, MutualPosts>> >> }
        \cup { <<MutualPosts, <<CollidingTags>> >> }
        \cup { <<posts, <<>> >> : posts \in TimedPosts }
        \cup { UsersAndTagsCall }

\* the options NewGenerator is called with
GeneratorOptions ==
    { <<DefaultIdentifierFields, "nil">>, << <<"Slug", "ID">>, "nil">>,
      <<DefaultIdentifierFields, "bySlug">> }

\* the string options NewGenerator is called with: none; the package name
\* only; the type name only (one that ends in a consonant, one that ends in
\* a vowel and y); an output file in a directory, without and with a type
\* name that carries its package; all five, with a type name that is not the
\* element kind's
NoOptions ==
    [PackageName |-> <<>>, TypeName |-> <<>>, ConstantIdent |-> <<>>,
     VarPrefix |-> <<>>, OutputFile |-> <<>>]

SItem == <<"I","t","e","m">>

SKey == <<"K","e","y">>

ExplicitOptions ==
    { [NoOptions EXCEPT !.PackageName = <<"t","e","s","t","d","a","t","a">>],
      [NoOptions EXCEPT !.TypeName = SItem],
      [NoOptions EXCEPT !.TypeName = SKey],
      [NoOptions EXCEPT !.OutputFile = <<"o","u","t","/","p","o","s","t","s",".","g","o">>],
      [NoOptions EXCEPT !.OutputFile = <<"o","u","t","/","p","o","s","t","s",".","g","o">>,
                        !.TypeName = <<"p","k","g",".","P","o","s","t">>,
                        !.ConstantIdent = PostName, !.VarPrefix = PostName],
      [PackageName |-> <<"c","u","s","t","o","m">>, TypeName |-> SItem,
       ConstantIdent |-> <<"C","I","t","e","m">>, VarPrefix |-> PostName,
       OutputFile |-> <<"o","u","t",".","g","o">>] }

\* the generators of the model: each naming policy without string options,
\* and each set of string options with the priority list Name, ID
GeneratorConfigs ==
    { [idFields |-> opt[1], customFn |-> opt[2], explicit |-> NoOptions] :
          opt \in GeneratorOptions }
        \cup { [idFields |-> <<"Name", "ID">>, customFn |-> "nil", explicit |-> ex] :
                   ex \in ExplicitOptions }

\* the calls made on a generator: any call without string options; on a
\* generator with string options one Post without and with its Tags, and
\* one Post of another package with its Tags and behind a pointer
ExplicitCalls ==
    { <<MutualPosts, <<>> >>, <<MutualPosts, <<VSlice(TagType, <<Tag(ST1, SGo)>>)>> >>,
      <<VSlice(PkgPostType, <<PkgPost>>), <<PkgTags>> >>,
      <<VSlice(TPtr(PkgPostType), <<VPtr(PkgPost)>>), <<>> >> }

CallsOf(config) == IF config.explicit = NoOptions THEN Calls ELSE ExplicitCalls

\* a pointer to the record at an address of Heap
VRef(t, addr) == [k |-> "ref", type |-> TPtr(t), addr |-> addr]

\* a Post that points to another Post through a field without a tag
LinkedFields == <<SField("ID", TString, ""), SField("Next", TPtr(PostType), "")>>

LinkedPost(id, next) ==
    VStruct(PostType, LinkedFields, [ID |-> VString(id), Next |-> next])

\* the records behind the pointers: the first points to itself, the second
\* and the third to each other, the fourth to the fifth, whose pointer is
\* nil
Heap ==
    <<LinkedPost(SP1, VRef(PostType, 1)),
      LinkedPost(SP1, VRef(PostType, 3)), LinkedPost(SP2, VRef(PostType, 2)),
      LinkedPost(SP1, VRef(PostType, 5)), LinkedPost(SP2, VNilPtr(PostType))>>

\* the primary datasets made of one of these records
LinkedDatasets == { VSlice(PostType, <<Heap[addr]>>) : addr \in {1, 2, 4, 5} }

\* the record with the records its pointers lead to in place of the
\* addresses, for a chain that ends in a nil pointer
RECURSIVE Unroll(_)
Unroll(record) ==
    IF record.f.Next.k = "ref"
    THEN [record EXCEPT !.f.Next = VPtr(Unroll(Heap[record.f.Next.addr]))]
    ELSE record

\* the calls with such a dataset, and one with a record without pointers
LinkedCalls ==
    { <<data, <<>> >> : data \in LinkedDatasets \cup { VSlice(UserType, <<User(SGo)>>) } }

\* the calls of getValueStatement inside one another the goroutine's stack
\* has room for
MaxStack == 3

\* how often Generate is called on one Generator
MaxCalls == 2

\* the first calls on a Generator that a later call follows
FirstCalls == ExplicitCalls \cup { UsersAndTagsCall, <<VString(SGo), <<>> >> }

\* the later calls on a Generator: a dataset of another kind than the first
\* call's, alone and with a reference dataset, and primary data that fails
\* the validation
LaterCalls ==
    { <<VSlice(TagType, <<Tag(ST1, SGo)>>), <<>> >>,
      <<VSlice(UserType, <<User(SGo)>>), <<VSlice(TagType, <<Tag(SGo, ST1)>>)>> >>,
      <<VString(SGo), <<VSlice(UserType, <<User(SGo)>>)>> >>,
      <<VSlice(PostType, <<>>), <<>> >> }

\* the resolutions of the clock between two readings of time.Now()
ClockTicks == {0, 1}

\* ------------------------------------------------------------------------
\* One Generate call, step by step
\* ------------------------------------------------------------------------
VARIABLES
    g,          \* the Generator
    pc,         \* where the call is: ready, primary, refs, write, returned,
                \* panicked
    err,        \* the error Generate returned ("" for nil)
    refsArg,    \* the refs argument of the call
    pending,    \* the keys of g.Refs the range loop has still to visit
    buf,        \* bytes.Buffer: <<>> or <<the rendered file>>
    disk,       \* the output file: how often os.WriteFile ran, what it holds
    now,        \* the clock
    prev,       \* <<>>, or <<the call and the declarations of an earlier run>>
    opts,       \* the options NewGenerator was called with
    before,     \* <<>>, or <<the Generator as the last call of Generate found it>>
    calls,      \* how often Generate was called on the Generator
    stack       \* the addresses of the records whose literals getValueStatement
                \* is in the middle of, outermost first

vars == <<g, pc, err, refsArg, pending, buf, disk, now, prev, opts, before, calls, stack>>

Init ==
    /\ opts \in GeneratorConfigs
    /\ g = WithOptions(NewGenerator(opts.idFields, opts.customFn), opts.explicit)
    /\ pc = "ready"
    /\ err = ""
    /\ refsArg = <<>>
    /\ pending = {}
    /\ buf = <<>>
    /\ disk = [writes |-> 0, content |-> <<>>]
    /\ now = 0
    /\ prev = <<>>
    /\ before = <<>>
    /\ calls = 0
    /\ stack = <<>>

\* a Generate that adds the reference datasets to the map of the call before
StoreArgumentsMerging(gen, data, refsMap) ==
    [gen EXCEPT !.Data = data, !.Refs = refsMap @@ gen.Refs]

\* g.Data = data; g.Refs = make(map[string]any), filled from refs
StoreArguments(gen, data, refsMap) == [gen EXCEPT !.Data = data, !.Refs = refsMap]

\* the validation of g.Data that follows the package comment: the error,
\* "" when the data passes
ValidateData(data) ==
    IF data.k # "slice" THEN "NonSliceOrArrayError"
    ELSE IF Len(data.items) = 0 THEN "EmptyError"
    ELSE IF StructTypeOf(data.items[1]) = <<>> THEN "InvalidTypeError"
    ELSE ""

\* Generate up to the emission: g.Data and g.Refs are stored, inferConfig
\* validates the primary data and fills the configuration, the jen.File is
\* created, the build info is read, the package comment is set, g.Data is
\* validated
GenerateCall(data, refs, buildInfoOk) ==
    /\ refsArg' = refs
    /\ before' = <<g>>
    /\ calls' = calls + 1
    /\ buf' = <<>>
    /\ LET built == BuildRefs(refs, 0, <<>>)
           stored == StoreArguments(g, data, built.Refs)
           inferred == inferConfig(stored, data)
           file == [pkg |-> inferred.gen.PackageName, comment |-> FALSE, decls |-> <<>>]
       IN  IF built.panic
           THEN /\ g' = stored
                /\ pc' = "panicked"
                /\ err' = err
           ELSE IF inferred.err # ""
           THEN /\ g' = stored
                /\ pc' = "returned"
                /\ err' = inferred.err
           ELSE IF ~buildInfoOk
           THEN /\ g' = [inferred.gen EXCEPT !.File = <<file>>]
                /\ pc' = "returned"
                /\ err' = "BuildInfoError"
           ELSE /\ g' = [inferred.gen EXCEPT !.File = <<[file EXCEPT !.comment = TRUE]>>]
                /\ pc' = IF ValidateData(data) # "" THEN "returned" ELSE "primary"
                /\ err' = ValidateData(data)
    /\ UNCHANGED <<pending, disk, now, prev, opts, stack>>

\* the first call of Generate on a new Generator
GenerateBegin(data, refs, buildInfoOk) ==
    /\ pc = "ready"
    /\ prev # <<>> => (data = prev[1].data /\ refs = prev[1].refs)
    /\ GenerateCall(data, refs, buildInfoOk)

\* a later call of Generate on the Generator an earlier call returned from
GenerateLater(data, refs, buildInfoOk) ==
    /\ pc = "returned"
    /\ prev = <<>>
    /\ calls < MaxCalls
    /\ calls = 1 => <<g.Data, refsArg>> \in FirstCalls
    /\ GenerateCall(data, refs, buildInfoOk)

AddDecls(gen, decls) == [gen EXCEPT !.File[1].decls = @ \o decls]

\* generateConstants, generateVariables, generateSlice of the primary data
GenerateEmitPrimary(tick) ==
    /\ pc = "primary"
    /\ g.Data \notin LinkedDatasets
    /\ LET r == EmitDataset(g, g.Data, now, tick)
       IN  /\ g' = AddDecls(g, r.decls)
           /\ now' = r.now
    /\ pending' = DOMAIN g.Refs
    /\ pc' = "refs"
    /\ UNCHANGED <<err, refsArg, buf, disk, prev, opts, before, calls, stack>>

\* one iteration of the loop over g.Refs, in the order the map yields: for
\* a dataset that passes the guards the configuration is swapped, the
\* dataset is emitted, and the configuration is restored
GenerateEmitRef(typeName, tick) ==
    /\ pc = "refs"
    /\ typeName \in pending
    /\ LET r == EmitReferenceDataset(g, typeName, now, tick)
       IN  /\ g' = IF IsEmittableRef(g.Refs[typeName])
                   THEN RestoreConfig(AddDecls(SwapConfig(g, typeName), r.decls), g)
                   ELSE AddDecls(g, r.decls)
           /\ now' = r.now
    /\ pending' = pending \ {typeName}
    /\ UNCHANGED <<pc, err, refsArg, buf, disk, prev, opts, before, calls, stack>>

\* g.File.Render(buf) with its error dropped
GenerateRenderUnchecked(renderOk) ==
    /\ pc = "refs"
    /\ pending = {}
    /\ buf' = IF renderOk THEN g.File ELSE buf
    /\ pc' = "write"
    /\ UNCHANGED <<g, err, refsArg, pending, disk, now, prev, opts, before, calls, stack>>

\* g.File.Render(buf) after the loop over g.Refs
GenerateRender(renderOk) ==
    /\ pc = "refs"
    /\ pending = {}
    /\ IF renderOk
       THEN buf' = g.File /\ pc' = "write" /\ err' = err
       ELSE buf' = buf /\ pc' = "returned" /\ err' = "RenderError"
    /\ UNCHANGED <<g, refsArg, pending, disk, now, prev, opts, before, calls, stack>>

\* os.WriteFile(g.OutputFile, buf.Bytes(), 0644): it succeeds, fails before
\* the file is touched, or fails after the file was truncated
GenerateWrite(outcome) ==
    /\ pc = "write"
    /\ disk' = [writes |-> disk.writes + 1,
                content |-> CASE outcome = "ok" -> buf
                              [] outcome = "open failed" -> disk.content
                              [] outcome = "write failed" -> <<"partial">>]
    /\ err' = IF outcome = "ok" THEN "" ELSE "WriteError"
    /\ pc' = "returned"
    /\ UNCHANGED <<g, refsArg, pending, buf, now, prev, opts, before, calls, stack>>

\* the program is run once more: a new Generator with the same options, the
\* same primary data and reference datasets, a new process in a clean
\* working directory.  Followed for the runs whose g.Refs has two keys or
\* more, the runs in which the map's order can show
GenerateAgain ==
    /\ pc = "returned"
    /\ err = ""
    /\ prev = <<>>
    /\ calls = 1
    /\ Cardinality(DOMAIN g.Refs) >= 2
    /\ prev' = <<[data |-> g.Data, refs |-> refsArg, decls |-> g.File[1].decls]>>
    /\ g' = WithOptions(NewGenerator(opts.idFields, opts.customFn), opts.explicit)
    /\ pc' = "ready"
    /\ refsArg' = <<>>
    /\ buf' = <<>>
    /\ disk' = [writes |-> 0, content |-> <<>>]
    /\ before' = <<>>
    /\ calls' = 0
    /\ UNCHANGED <<err, pending, now, opts, stack>>

Next ==
    \/ \E call \in CallsOf(opts), buildInfoOk \in BOOLEAN :
          GenerateBegin(call[1], call[2], buildInfoOk)
    \/ \E tick \in ClockTicks : GenerateEmitPrimary(tick)
    \/ \E typeName \in pending, tick \in ClockTicks : GenerateEmitRef(typeName, tick)
    \/ \E renderOk \in BOOLEAN : GenerateRender(renderOk)
    \/ \E outcome \in {"ok", "open failed", "write failed"} : GenerateWrite(outcome)
    \/ GenerateAgain

Spec == Init /\ [][Next]_vars

\* generateVariables on such a record, one call of getValueStatement at a
\* time: the struct's fields are emitted, and for the pointer field Next
\* getValueStatement calls itself with value.Elem(), the record the pointer
\* leads to.  At a nil pointer the calls return and the dataset is emitted;
\* when the stack has no room for another call the runtime ends the
\* process with a stack overflow
GenerateDescend(tick) ==
    /\ pc = "primary"
    /\ g.Data \in LinkedDatasets
    /\ LET record == IF stack = <<>> THEN g.Data.items[1] ELSE Heap[stack[Len(stack)]]
       IN  IF record.f.Next.k = "ref"
           THEN /\ IF Len(stack) < MaxStack
                   THEN stack' = Append(stack, record.f.Next.addr) /\ pc' = pc
                   ELSE stack' = stack /\ pc' = "crashed"
                /\ UNCHANGED <<g, now, pending>>
           ELSE /\ LET r == EmitDataset(g, VSlice(PostType, <<Unroll(g.Data.items[1])>>),
                                        now, tick)
                   IN  /\ g' = AddDecls(g, r.decls)
                       /\ now' = r.now
                /\ pending' = DOMAIN g.Refs
                /\ stack' = <<>>
                /\ pc' = "refs"
    /\ UNCHANGED <<err, refsArg, buf, disk, prev, opts, before, calls>>

\* the behaviours in which a Generator is used for more than one call
NextCalls ==
    \/ Next
    \/ \E call \in LaterCalls, buildInfoOk \in BOOLEAN :
          GenerateLater(call[1], call[2], buildInfoOk)

CallsSpec == Init /\ [][NextCalls]_vars

\* the behaviours of the calls with records that point to records
NextLinked ==
    \/ \E call \in LinkedCalls, buildInfoOk \in BOOLEAN :
          GenerateBegin(call[1], call[2], buildInfoOk)
    \/ \E tick \in ClockTicks : GenerateEmitPrimary(tick)
    \/ \E tick \in ClockTicks : GenerateDescend(tick)
    \/ \E renderOk \in BOOLEAN : GenerateRender(renderOk)
    \/ \E outcome \in {"ok", "open failed", "write failed"} : GenerateWrite(outcome)

LinkedSpec == Init /\ [][NextLinked]_vars

\* ------------------------------------------------------------------------
\* What a run has emitted, read from the jen.File: the primary dataset of
\* the model is one Post, which has an ID, so the file's declarations start
\* with the constants of the Posts, followed by the variable of the Post
\* ------------------------------------------------------------------------
PrimaryEmitted == g.File # <<>> /\ g.File[1].decls # <<>>

PostRecord == DerefStruct(g.Data.items[1])

\* the tagged field of the Post: its type and its tag
LinkField == TypeFieldByName(PostRecord.fields, "Link")[1]

\* the fields of the Post's literal, and the statement its Link field got
PostLiteral == g.File[1].decls[2].value.dict

LinkEmitted == "Link" \in DOMAIN PostLiteral

LinkStmt == PostLiteral["Link"]

IsSequenceBinding == <<LinkField.type, LinkField.tag>> \in SequenceShapes

IsSingleBinding == <<LinkField.type, LinkField.tag>> \in SingleShapes

\* a reference to a declaration: &name for a pointer, name for a value
IsReference(stmt, isPointer) ==
    IF isPointer THEN stmt.e = "addr" /\ stmt.x.e = "id" ELSE stmt.e = "id"

ReferenceName(stmt) == IF stmt.e = "addr" THEN stmt.x.name ELSE stmt.name

\* the names of the variables the file declares
DeclaredNames ==
    { g.File[1].decls[i].name :
          i \in { j \in DOMAIN g.File[1].decls : g.File[1].decls[j].d = "var" } }

\* the records of the Tag dataset of the run, and the source identifiers of
\* the Post
TagRefs == IF TagName \in DOMAIN g.Refs THEN g.Refs[TagName].items ELSE <<>>

SourceIds == [i \in DOMAIN PostRecord.f.Refs.items |-> PostRecord.f.Refs.items[i].s]

SourceId == PostRecord.f.Ref.s

\* record j of the Tag dataset has an identifier field that is a string and
\* equals id
Matches(j, id) ==
    \E n \in Range(g.IdentifierFields) :
        /\ n \in DOMAIN DerefStruct(TagRefs[j]).f
        /\ DerefStruct(TagRefs[j]).f[n].k = "string"
        /\ DerefStruct(TagRefs[j]).f[n].s = id

\* the name generateVariables gives record j of the Tag dataset when it has
\* a non-empty identifier: the custom function's result, or the first
\* non-empty identifier field in priority order
RECURSIVE FirstNonEmpty(_, _)
FirstNonEmpty(f, names) ==
    IF names = <<>> THEN <<>>
    ELSE IF Head(names) \in DOMAIN f /\ f[Head(names)].k = "string" /\ f[Head(names)].s # <<>>
    THEN f[Head(names)].s
    ELSE FirstNonEmpty(f, Tail(names))

TagIdentifier(j) ==
    IF g.CustomVarNameFn = "bySlug" THEN DerefStruct(TagRefs[j]).f.Slug.s
    ELSE FirstNonEmpty(DerefStruct(TagRefs[j]).f, g.IdentifierFields)

\* ------------------------------------------------------------------------
\* C1: a sequence field tagged structgen whose target kind was given to
\* Generate as a reference dataset is emitted as a sequence of references
\* to declarations of matched Tag records, &name for a pointer element and
\* name for a value element, and never as a literal of the record
\* ------------------------------------------------------------------------
C1_SequenceOfReferences ==
    (PrimaryEmitted /\ IsSequenceBinding /\ TagName \in DOMAIN g.Refs) =>
        /\ LinkEmitted
        /\ LinkStmt.e = "values"
        /\ \A i \in DOMAIN LinkStmt.items :
              /\ IsReference(LinkStmt.items[i], LinkField.type.elem.k = "ptr")
              /\ \E j \in DOMAIN TagRefs :
                    /\ \E k \in DOMAIN SourceIds : Matches(j, SourceIds[k])
                    /\ TagIdentifier(j) # <<>> =>
                           ReferenceName(LinkStmt.items[i])
                               = TagName \o slugToIdentifier(TagIdentifier(j))
        /\ (\E j \in DOMAIN TagRefs, k \in DOMAIN SourceIds : Matches(j, SourceIds[k]))
               => LinkStmt.items # <<>>

\* a Post with Refs = <<"go">> and a []*Tag field, a Tag dataset that holds
\* {ID: "t-1", Slug: "go"}: the field is <<&TagT1>>
C1_Witness ==
    /\ PrimaryEmitted /\ IsSequenceBinding /\ TagName \in DOMAIN g.Refs
    /\ g.CustomVarNameFn = "nil"
    /\ g.IdentifierFields = DefaultIdentifierFields
    /\ SourceIds = <<SGo>>
    /\ LinkStmt.items = <<JAddr(JId(<<"T","a","g","T","1">>))>>

\* the names the Link field of the Post refers to
ReferencedNames ==
    IF ~LinkEmitted THEN {}
    ELSE IF IsSequenceBinding
    THEN { ReferenceName(LinkStmt.items[i]) : i \in DOMAIN LinkStmt.items }
    ELSE IF IsSingleBinding /\ IsReference(LinkStmt, LinkField.type.k = "ptr")
    THEN { ReferenceName(LinkStmt) }
    ELSE {}

\* ------------------------------------------------------------------------
\* C2: when Generate has emitted everything, each reference of a tagged
\* field names a variable the same run declares
\* ------------------------------------------------------------------------
C2_ReferencesNameDeclarations ==
    (pc = "write" /\ PrimaryEmitted) => ReferencedNames \subseteq DeclaredNames

\* the references that do name a declaration: those to records that have a
\* non-empty identifier
C2_Witness ==
    /\ pc = "write" /\ PrimaryEmitted
    /\ ReferencedNames # {}
    /\ ReferencedNames \subseteq DeclaredNames

C4_SingleWriteAfterRender ==
    /\ disk.writes <= 1
    /\ disk.writes = 1 =>
           /\ pc = "returned"
           /\ ValidateData(g.Data) = ""
           /\ buf = g.File
           /\ buf # <<>>
           /\ err \in {"", "WriteError"}
    /\ err \in {"InvalidTypeError", "EmptyError", "NonSliceOrArrayError",
                "BuildInfoError", "RenderError"} =>
           disk.writes = 0 /\ disk.content = <<>>

C4_Witness ==
    /\ disk.writes = 1
    /\ err = ""
    /\ disk.content = g.File

\* a reference argument the loop over g.Refs does not emit: not a sequence,
\* an empty sequence, or a sequence whose elements are neither structs nor
\* pointers to structs
HasSkippedReference ==
    \E i \in DOMAIN refsArg : refsArg[i].k # "invalid" /\ ~IsEmittableRef(refsArg[i])

HasPrefix(s, prefix) ==
    Len(s) >= Len(prefix) /\ SubSeq(s, 1, Len(prefix)) = prefix

\* the variable declarations that follow those of the primary dataset
ReferenceDeclarations ==
    { j \in DOMAIN g.File[1].decls :
          j > 2 + Len(g.Data.items) /\ g.File[1].decls[j].d = "var" }

FirstMatch ==
    CHOOSE j \in DOMAIN TagRefs :
        Matches(j, SourceId) /\ \A i \in 1..(j - 1) : ~Matches(i, SourceId)

\* ------------------------------------------------------------------------
\* C6: a single-value binding resolves to the first record of the target
\* dataset, in dataset order, one of whose identifier fields is a string
\* equal to the source string; later matching records are never chosen
\* ------------------------------------------------------------------------
C6_FirstMatchingRecord ==
    (PrimaryEmitted /\ IsSingleBinding /\ \E j \in DOMAIN TagRefs : Matches(j, SourceId)) =>
        /\ LinkEmitted
        /\ IsReference(LinkStmt, LinkField.type.k = "ptr")
        /\ TagIdentifier(FirstMatch) # <<>> =>
               ReferenceName(LinkStmt) = TagName \o slugToIdentifier(TagIdentifier(FirstMatch))

\* Ref = "go" against <<{ID: "t-1", Slug: "go"}, {ID: "go", Slug: "t-1"}>>:
\* both match, the first is referenced
C6_Witness ==
    /\ PrimaryEmitted /\ IsSingleBinding
    /\ g.CustomVarNameFn = "nil"
    /\ g.IdentifierFields = DefaultIdentifierFields
    /\ SourceId = SGo
    /\ TagRefs = <<Tag(ST1, SGo), Tag(SGo, ST1)>>
    /\ ReferenceName(LinkStmt) = <<"T","a","g","T","1">>

\* ------------------------------------------------------------------------
\* C7 as the spec states it: each source identifier of a sequence binding
\* contributes at most one reference, so the emitted sequence is never
\* longer than the source sequence
\* ------------------------------------------------------------------------
C7_AtMostOnePerSource ==
    (PrimaryEmitted /\ IsSequenceBinding) => Len(LinkStmt.items) <= Len(SourceIds)

\* the pairs of a source identifier and a record that matches it
MatchingPairs ==
    { p \in (DOMAIN SourceIds) \X (DOMAIN TagRefs) : Matches(p[2], SourceIds[p[1]]) }

\* ------------------------------------------------------------------------
\* C8: a tagged sequence field is always emitted as a sequence literal of
\* the declared element type; its entries are references, one per match, so
\* it is empty when the source is empty or nothing matches, and an
\* identifier without a match leaves no entry (no nil, no zero value)
\* ------------------------------------------------------------------------
C8_TypedSequenceLiteral ==
    (PrimaryEmitted /\ IsSequenceBinding) =>
        /\ LinkEmitted
        /\ LinkStmt.e = "values"
        /\ LinkStmt.type = JIndex(IF LinkField.type.elem.k = "ptr"
                                  THEN JStar(JId(TagName)) ELSE JId(TagName))
        /\ \A i \in DOMAIN LinkStmt.items :
               IsReference(LinkStmt.items[i], LinkField.type.elem.k = "ptr")
        /\ Len(LinkStmt.items) = Cardinality(MatchingPairs)

\* Refs = <<"go", "zz">> against <<{ID: "t-1", Slug: "go"}>>: one entry
C8_Witness ==
    /\ PrimaryEmitted /\ IsSequenceBinding
    /\ SourceIds = <<SGo, SZz>>
    /\ TagRefs = <<Tag(ST1, SGo)>>
    /\ Len(LinkStmt.items) = 1

\* T{} for a value field, &T{} for a pointer field
Placeholder ==
    IF LinkField.type.k = "ptr"
    THEN JAddr(JValues(JId(TagName), <<>>))
    ELSE JValues(JId(TagName), <<>>)

\* ------------------------------------------------------------------------
\* C9: a tagged single-value field whose target kind is not among the
\* reference datasets of the run, or whose source string matches no record,
\* is emitted as the zero-valued placeholder, and the run returns no error
\* but those of rendering and writing
\* ------------------------------------------------------------------------
C9_PlaceholderWithoutError ==
    (/\ PrimaryEmitted
     /\ IsSingleBinding
     /\ \/ TagName \notin DOMAIN g.Refs
        \/ \A j \in DOMAIN TagRefs : ~Matches(j, SourceId)) =>
        /\ LinkEmitted
        /\ LinkStmt = Placeholder
        /\ pc \in {"refs", "write", "returned"}
        /\ pc = "returned" => err \in {"", "RenderError", "WriteError"}

\* Ref = "zz" against a Tag dataset without it: &Tag{}, and Generate
\* returned nil
C9_Witness ==
    /\ PrimaryEmitted /\ IsSingleBinding
    /\ SourceId = SZz
    /\ TagRefs # <<>>
    /\ LinkStmt = JAddr(JValues(JId(TagName), <<>>))
    /\ pc = "returned"
    /\ err = ""

\* ------------------------------------------------------------------------
\* C10: a tagged field whose target and source types are none of the two
\* supported shapes, or whose tag names a field the record does not have,
\* is left out of the record's literal, whose other fields are emitted, and
\* the run returns no error but those of rendering and writing
\* ------------------------------------------------------------------------
C10_UnsupportedBindingLeftOut ==
    (PrimaryEmitted /\ <<LinkField.type, LinkField.tag>> \in LinkShapes \ SupportedShapes) =>
        /\ ~LinkEmitted
        /\ DOMAIN PostLiteral = {"ID", "Ref", "Refs", "Num"}
        /\ pc \in {"refs", "write", "returned"}
        /\ pc = "returned" => err \in {"", "RenderError", "WriteError"}

\* a []Tag field whose tag names the field Missing: Generate returned nil
C10_Witness ==
    /\ PrimaryEmitted
    /\ LinkField.tag = "Missing"
    /\ ~LinkEmitted
    /\ pc = "returned"
    /\ err = ""

\* the variable declared for record i of the primary dataset: the constants
\* of the Posts come first
PrimaryVariable(i) == g.File[1].decls[1 + i]

\* the names a statement of a tagged field refers to
NamesIn(stmt) ==
    IF stmt.e = "values"
    THEN { ReferenceName(stmt.items[i]) :
               i \in { j \in DOMAIN stmt.items :
                           IsReference(stmt.items[j], stmt.items[j].e = "addr") } }
    ELSE IF IsReference(stmt, stmt.e = "addr") THEN { ReferenceName(stmt) }
    ELSE {}

\* the names the literal of record i of the primary dataset refers to
\* through its tagged field
LinkNames(i) ==
    IF "Link" \in DOMAIN PrimaryVariable(i).value.dict
    THEN NamesIn(PrimaryVariable(i).value.dict["Link"])
    ELSE {}

\* ------------------------------------------------------------------------
\* C11 as the spec states it: the literal of a record never refers to the
\* variable that is being declared for this record
\* ------------------------------------------------------------------------
C11_NoSelfReference ==
    PrimaryEmitted =>
        \A i \in DOMAIN g.Data.items : PrimaryVariable(i).name \notin LinkNames(i)

\* the kind of the record a variable's literal was made from, by its fields
KindOfLiteral(dict) ==
    IF "Ref" \in DOMAIN dict THEN PostName
    ELSE IF "Slug" \in DOMAIN dict THEN TagName
    ELSE UserName

\* the declarations of the records, of any dataset
RecordVariables ==
    { j \in DOMAIN g.File[1].decls :
          g.File[1].decls[j].d = "var" /\ g.File[1].decls[j].value.e = "dictvalues" }

\* the constants, variables and collection of the primary dataset
PrimaryConstants == g.File[1].decls[1].defs

PrimaryCollection == g.File[1].decls[2 + Len(g.Data.items)]

\* ------------------------------------------------------------------------
\* C12: once the primary dataset is emitted, after each reference dataset
\* and when Generate returns, TypeName, VarPrefix and ConstantIdent hold the
\* values the primary dataset was named with; every record's variable is
\* named with the prefix of its own dataset (the kind name for a reference
\* dataset), in whatever order the reference datasets are visited
\* ------------------------------------------------------------------------
C12_SwapAndRestore ==
    PrimaryEmitted =>
        /\ PrimaryCollection.name = SliceName(g.TypeName)
        /\ \A i \in DOMAIN g.Data.items : HasPrefix(PrimaryVariable(i).name, g.VarPrefix)
        /\ \A i \in DOMAIN PrimaryConstants :
               HasPrefix(PrimaryConstants[i].name, g.ConstantIdent)
        /\ \A j \in RecordVariables :
               /\ HasPrefix(g.File[1].decls[j].name,
                            IF j <= 1 + Len(g.Data.items)
                            THEN g.VarPrefix
                            ELSE KindOfLiteral(g.File[1].decls[j].value.dict))
               /\ g.File[1].decls[j].value.type.name
                      = (IF j <= 1 + Len(g.Data.items)
                         THEN g.TypeName
                         ELSE KindOfLiteral(g.File[1].decls[j].value.dict))

\* Generate(posts, users, tags) returned nil: Users and Tags were emitted
\* and the configuration is that of the Posts
C12_Witness ==
    /\ pc = "returned"
    /\ err = ""
    /\ Len(refsArg) = 2
    /\ DOMAIN g.Refs = {UserName, TagName}
    /\ g.TypeName = PostName
    /\ g.VarPrefix = PostName
    /\ g.ConstantIdent = PostName
    /\ \E j \in RecordVariables : KindOfLiteral(g.File[1].decls[j].value.dict) = UserName
    /\ \E j \in RecordVariables : KindOfLiteral(g.File[1].decls[j].value.dict) = TagName

\* the primary records refer to Tags through a tagged field, and the Tags
\* of the run refer to the primary kind through one
MutuallyReferring ==
    /\ IsSequenceBinding
    /\ TagName \in DOMAIN InitRefMap(g)
    /\ \E i \in DOMAIN InitRefMap(g)[TagName] :
           InitRefMap(g)[TagName][i].targetType = g.TypeName

\* ------------------------------------------------------------------------
\* C13 as the spec states it: when two kinds refer to each other through
\* tagged fields, the emitted file holds the init function of the deferred
\* initialization pass, and the literals of the two kinds do not refer to
\* each other
\* ------------------------------------------------------------------------
C13_DeferredInitialization ==
    (pc = "write" /\ PrimaryEmitted /\ MutuallyReferring) =>
        /\ \E j \in DOMAIN g.File[1].decls :
               <<g.File[1].decls[j]>> = generateInitFunction(g)
        /\ \A j \in RecordVariables :
               (j > 1 + Len(g.Data.items) /\ "Posts" \in DOMAIN g.File[1].decls[j].value.dict)
                   => NamesIn(g.File[1].decls[j].value.dict["Posts"]) = {}

Least(S) == CHOOSE m \in S : \A x \in S : m <= x

\* the variables of the Tag records among the reference declarations: the
\* k-th one is the variable of record k of the Tag dataset
TagVariableIndices ==
    { j \in RecordVariables :
          /\ j > 1 + Len(g.Data.items)
          /\ KindOfLiteral(g.File[1].decls[j].value.dict) = TagName }

TagVariablesEmitted ==
    /\ PrimaryEmitted
    /\ g.TypeName = PostName
    /\ TagRefs # <<>>
    /\ Cardinality(TagVariableIndices) = Len(TagRefs)

TagVariable(k) == g.File[1].decls[Least(TagVariableIndices) + k - 1]

\* ------------------------------------------------------------------------
\* C14 as the spec states it: within one dataset, two records whose
\* identifier strings differ never get the same declaration name
\* ------------------------------------------------------------------------
C14_DistinctDeclarationNames ==
    TagVariablesEmitted =>
        \A i, j \in DOMAIN TagRefs :
            (/\ TagIdentifier(i) # <<>>
             /\ TagIdentifier(j) # <<>>
             /\ TagIdentifier(i) # TagIdentifier(j))
                => TagVariable(i).name # TagVariable(j).name

\* the "all records" collection that follows the variables of the Tag records
TagCollection == g.File[1].decls[Least(TagVariableIndices) + Len(TagRefs)]

\* ------------------------------------------------------------------------
\* C15 as the spec states it: the "all records" collection of an emitted
\* dataset has one entry per record, in dataset order, and entry i is the
\* address of the variable that was declared for record i in the same run
\* ------------------------------------------------------------------------
C15_CollectionRefersToVariables ==
    /\ PrimaryEmitted =>
           /\ Len(PrimaryCollection.value.items) = Len(g.Data.items)
           /\ \A i \in DOMAIN g.Data.items :
                  PrimaryCollection.value.items[i] = JAddr(JId(PrimaryVariable(i).name))
    /\ TagVariablesEmitted =>
           /\ TagCollection.name = SliceName(TagName)
           /\ Len(TagCollection.value.items) = Len(TagRefs)
           /\ \A k \in DOMAIN TagRefs :
                  TagCollection.value.items[k] = JAddr(JId(TagVariable(k).name))

\* the reference arguments of the run that are datasets
ReferenceDatasets == { i \in DOMAIN refsArg : IsEmittableRef(refsArg[i]) }

\* the "all records" collections that follow the primary dataset's
ReferenceCollections ==
    { j \in ReferenceDeclarations : g.File[1].decls[j].value.e = "values" }

\* the identifier of a record that has a non-empty identifier field
RecordIdentifier(record) ==
    IF g.CustomVarNameFn # "nil"
    THEN ApplyCustomVarNameFn(g.CustomVarNameFn, DerefStruct(record))
    ELSE FirstNonEmpty(DerefStruct(record).f, g.IdentifierFields)

\* ------------------------------------------------------------------------
\* C16 as the spec states it: every reference dataset of a successful run
\* gets its own group of declarations, a variable per record and one
\* collection, also when two reference datasets have the same element kind
\* ------------------------------------------------------------------------
C16_GroupPerReferenceDataset ==
    (pc = "write" /\ PrimaryEmitted) =>
        /\ Cardinality(ReferenceCollections) = Cardinality(ReferenceDatasets)
        /\ \A i \in ReferenceDatasets :
               \A k \in DOMAIN refsArg[i].items :
                   RecordIdentifier(refsArg[i].items[k]) # <<>> =>
                       StructTypeOf(refsArg[i].items[k])[1].name
                           \o slugToIdentifier(RecordIdentifier(refsArg[i].items[k]))
                               \in DeclaredNames

\* ------------------------------------------------------------------------
\* C17 as the spec states it: a second run with the same configuration, the
\* same primary dataset and the same reference datasets (no synthetic
\* identifiers among them) emits the declarations of the first run, in the
\* same order
\* ------------------------------------------------------------------------
C17_SameDeclarationsOnRerun ==
    (prev # <<>> /\ pc = "write") => g.File[1].decls = prev[1].decls

\* the reference datasets the loop over g.Refs has emitted
EmittedKinds ==
    IF PrimaryEmitted
    THEN { kind \in DOMAIN g.Refs \ pending : IsEmittableRef(g.Refs[kind]) }
    ELSE {}

\* the variables of the records of an emitted reference dataset, in order
KindVariableIndices(kind) ==
    { j \in RecordVariables :
          /\ j > 1 + Len(g.Data.items)
          /\ KindOfLiteral(g.File[1].decls[j].value.dict) = kind }

KindVariable(kind, k) == g.File[1].decls[Least(KindVariableIndices(kind)) + k - 1]

\* the positions of the identifier fields, in priority order, that name a
\* non-empty string field of the record
IdentifierPositions(record) ==
    { p \in DOMAIN g.IdentifierFields :
          /\ g.IdentifierFields[p] \in DOMAIN record.f
          /\ record.f[g.IdentifierFields[p]].k = "string"
          /\ record.f[g.IdentifierFields[p]].s # <<>> }

\* the positions of the record's fields, in declaration order, that are
\* non-empty strings
StringPositions(record) ==
    { p \in DOMAIN record.fields :
          /\ record.f[record.fields[p].name].k = "string"
          /\ record.f[record.fields[p].name].s # <<>> }

\* name is prefix + the fragment of the identifier the precedence gives
NamedByPrecedence(name, prefix, typeName, record) ==
    IF g.CustomVarNameFn # "nil"
    THEN name = prefix \o slugToIdentifier(ApplyCustomVarNameFn(g.CustomVarNameFn, record))
    ELSE IF IdentifierPositions(record) # {}
    THEN name = prefix \o slugToIdentifier(
                    record.f[g.IdentifierFields[Least(IdentifierPositions(record))]].s)
    ELSE IF StringPositions(record) # {}
    THEN name = prefix \o slugToIdentifier(
                    record.f[record.fields[Least(StringPositions(record))].name].s)
    ELSE \E t \in 0..now :
             name = prefix \o slugToIdentifier(typeName \o <<"-">> \o Itoa(t))

\* ------------------------------------------------------------------------
\* C18: every record's variable is named after the identifier that
\* getStructIdentifier returns in this precedence: the custom naming
\* function's result when one is configured; else the first field of the
\* IdentifierFields list that the record has, is a string and is non-empty;
\* else the first non-empty string field in declaration order; else the
\* kind name, a dash and a reading of the clock
\* ------------------------------------------------------------------------
C18_IdentifierPrecedence ==
    /\ PrimaryEmitted =>
           \A i \in DOMAIN g.Data.items :
               NamedByPrecedence(PrimaryVariable(i).name, g.VarPrefix, g.TypeName,
                                 DerefStruct(g.Data.items[i]))
    /\ \A kind \in EmittedKinds :
           /\ Cardinality(KindVariableIndices(kind)) = Len(g.Refs[kind].items)
           /\ \A k \in DOMAIN g.Refs[kind].items :
                  NamedByPrecedence(KindVariable(kind, k).name, kind, kind,
                                    DerefStruct(g.Refs[kind].items[k]))

\* under the priority list Slug, ID a User, which has neither field, is
\* named after its first non-empty string, and a Tag after its Slug, not
\* after its ID, which is declared first
C18_Witness ==
    /\ EmittedKinds = {UserName, TagName}
    /\ g.CustomVarNameFn = "nil"
    /\ g.IdentifierFields = <<"Slug", "ID">>
    /\ g.Refs[TagName].items = <<Tag(ST1, SGo)>>
    /\ KindVariable(UserName, 1).name = <<"U","s","e","r","G","o">>
    /\ KindVariable(TagName, 1).name = <<"T","a","g","G","o">>

\* the records of an emitted reference dataset that get a synthetic
\* identifier: no custom function, no non-empty string field
SyntheticRecords(kind) ==
    { k \in DOMAIN g.Refs[kind].items :
          /\ g.CustomVarNameFn = "nil"
          /\ StringPositions(DerefStruct(g.Refs[kind].items[k])) = {} }

\* ------------------------------------------------------------------------
\* C19 as the spec states it: a record with no non-empty string field and
\* no identifier-policy match gets a non-empty synthetic name, and two such
\* records of one run never get the same name
\* ------------------------------------------------------------------------
C19_SyntheticNamesDistinct ==
    \A kind \in EmittedKinds :
        \A i, j \in SyntheticRecords(kind) :
            /\ KindVariable(kind, i).name # <<>>
            /\ i # j => KindVariable(kind, i).name # KindVariable(kind, j).name

\* inferConfig has run on a non-empty sequence of structs and returned nil:
\* Generate creates the jen.File right after it
ConfigInferred == g.File # <<>>

\* ------------------------------------------------------------------------
\* C20: after inferConfig on a non-empty struct sequence an unset TypeName
\* is the element kind's name, an unset ConstantIdent and an unset VarPrefix
\* equal TypeName, an unset OutputFile is the lowercase TypeName followed by
\* "_generated.go", and every TypeName, ConstantIdent, VarPrefix, OutputFile,
\* PackageName and IdentifierFields set through an option is unchanged
\* ------------------------------------------------------------------------
C20_InferenceFillsUnsetOnly ==
    ConfigInferred =>
        /\ g.TypeName = IF opts.explicit.TypeName # <<>> THEN opts.explicit.TypeName
                        ELSE StructTypeOf(g.Data.items[1])[1].name
        /\ g.ConstantIdent = IF opts.explicit.ConstantIdent # <<>>
                             THEN opts.explicit.ConstantIdent ELSE g.TypeName
        /\ g.VarPrefix = IF opts.explicit.VarPrefix # <<>>
                         THEN opts.explicit.VarPrefix ELSE g.TypeName
        /\ g.OutputFile = IF opts.explicit.OutputFile # <<>>
                          THEN opts.explicit.OutputFile
                          ELSE ToLower(g.TypeName) \o <<"_","g","e","n","e","r","a","t","e","d",".","g","o">>
        /\ opts.explicit.PackageName # <<>> => g.PackageName = opts.explicit.PackageName
        /\ g.IdentifierFields = opts.idFields

\* a generator with every option set, whose type name is not the element
\* kind's, has emitted the Posts under its own names
C20_Witness ==
    /\ ConfigInferred
    /\ PrimaryEmitted
    /\ opts.explicit.TypeName = SItem
    /\ opts.explicit.VarPrefix = PostName
    /\ StructTypeOf(g.Data.items[1])[1].name = PostName
    /\ g.TypeName = SItem
    /\ g.ConstantIdent = <<"C","I","t","e","m">>
    /\ g.OutputFile = <<"o","u","t",".","g","o">>
    /\ g.PackageName = <<"c","u","s","t","o","m">>
    /\ PrimaryCollection.name = <<"A","l","l","I","t","e","m","s">>

\* ------------------------------------------------------------------------
\* C21 as the spec states it: a Generate call whose primary data is not a
\* sequence returns NonSliceOrArrayError; EmptyError is for an empty
\* sequence, InvalidTypeError for elements that are not structs
\* ------------------------------------------------------------------------
C21_NonSequenceError ==
    (pc = "returned" /\ err # "") =>
        /\ g.Data.k # "slice" => err = "NonSliceOrArrayError"
        /\ (g.Data.k = "slice" /\ Len(g.Data.items) = 0) => err = "EmptyError"

\* ------------------------------------------------------------------------
\* C22 as the spec states it: a single-value binding whose source string is
\* empty is emitted as the zero-valued placeholder, never as a reference,
\* whatever records the target dataset holds
\* ------------------------------------------------------------------------
C22_EmptySourceIsPlaceholder ==
    (PrimaryEmitted /\ IsSingleBinding /\ SourceId = <<>>) =>
        /\ LinkEmitted
        /\ LinkStmt = Placeholder

\* the plural of a kind name by the stated rules (the names of the model
\* are in no table of irregular plurals)
IsVowel(c) == c \in {"a", "e", "i", "o", "u", "A", "E", "I", "O", "U"}

PluralOf(name) ==
    IF \/ name[Len(name)] \in {"s", "x", "z"}
       \/ HasSuffix(name, <<"s","h">>)
       \/ HasSuffix(name, <<"c","h">>)
    THEN name \o <<"e","s">>
    ELSE IF /\ name[Len(name)] = "y"
            /\ Len(name) >= 2
            /\ ~IsVowel(name[Len(name) - 1])
    THEN SubSeq(name, 1, Len(name) - 1) \o <<"i","e","s">>
    ELSE name \o <<"s">>

\* ------------------------------------------------------------------------
\* C23 as the spec states it: the "all records" collection is named "All"
\* followed by the plural of the kind name: "es" after s, x, z, sh and ch,
\* "ies" for a final y that follows a consonant, a plain "s" otherwise, so a
\* name that ends in a vowel and y gets a plain "s"
\* ------------------------------------------------------------------------
C23_CollectionNamePlural ==
    PrimaryEmitted =>
        PrimaryCollection.name = <<"A","l","l">> \o PluralOf(g.TypeName)

\* the value of an emitted expression of type t, as Go evaluates it:
\* literals, nil, []T{...}, &x, and time.Date(..., time.UTC), which is the
\* time with these fields in the zone UTC
RECURSIVE Evaluate(_, _)
Evaluate(stmt, t) ==
    CASE stmt.e = "litstring" -> VString(stmt.s)
      [] stmt.e = "litint" -> VInt(stmt.n)
      [] stmt.e = "nil" -> VNilPtr(t.elem)
      [] stmt.e = "addr" -> VPtr(Evaluate(stmt.x, t.elem))
      [] stmt.e = "values" ->
           VSlice(t.elem, [i \in DOMAIN stmt.items |-> Evaluate(stmt.items[i], t.elem)])
      [] stmt.e = "call" -> VTime(stmt.args, 0)
      [] OTHER -> VInvalid

\* the fields of record i of the primary dataset that the literal emitter
\* writes: exported, without a structgen tag
EmittedFields(i) ==
    { p \in DOMAIN DerefStruct(g.Data.items[i]).fields :
          /\ DerefStruct(g.Data.items[i]).fields[p].exported
          /\ DerefStruct(g.Data.items[i]).fields[p].tag = ""
          /\ DerefStruct(g.Data.items[i]).fields[p].type
                 \in {TString, TInt, TSlice(TString), TTime} }

\* ------------------------------------------------------------------------
\* C24 as the spec states it: the expression emitted for a value evaluates
\* to a value equal to the original, for strings, integers, slices and
\* times in any time zone
\* ------------------------------------------------------------------------
C24_RoundTrip ==
    PrimaryEmitted =>
        \A i \in DOMAIN g.Data.items :
            \A p \in EmittedFields(i) :
                LET field == DerefStruct(g.Data.items[i]).fields[p]
                IN  /\ field.name \in DOMAIN PrimaryVariable(i).value.dict
                    /\ Evaluate(PrimaryVariable(i).value.dict[field.name], field.type)
                           = DerefStruct(g.Data.items[i]).f[field.name]

\* qualification is enabled and the type's package is non-empty, not main
\* and not the generated package
Qualified(t) ==
    /\ \E p \in DOMAIN g.OutputFile : g.OutputFile[p] = "/"
    /\ t.pkg \notin {<<>>, MainPkg, g.PackageName}

\* the qualified name of a qualified type, the bare name of any other
RenderedName(t) == IF Qualified(t) THEN JQual(t.pkg, t.name) ELSE JId(t.name)

\* what the declarations of a dataset name its type with: the configured
\* type name in place of the bare name, and in place of the qualified name
\* when it holds a dot
DeclaredName(t, typeName) ==
    IF Qualified(t) /\ \A p \in DOMAIN typeName : typeName[p] # "."
    THEN JQual(t.pkg, t.name)
    ELSE JId(typeName)

PrimaryType == StructTypeOf(g.Data.items[1])[1]

\* the literal emitter and the type renderer on the fields of the primary
\* records: a struct value, a sequence of structs, a time
FieldsRenderedByDecision ==
    \A i \in DOMAIN g.Data.items :
        /\ "Author" \in DOMAIN PrimaryVariable(i).value.dict =>
               PrimaryVariable(i).value.dict["Author"].type = RenderedName(PkgUserType)
        /\ "Editors" \in DOMAIN PrimaryVariable(i).value.dict =>
               /\ PrimaryVariable(i).value.dict["Editors"].type
                      = JIndex(RenderedName(PkgUserType))
               /\ \A k \in DOMAIN PrimaryVariable(i).value.dict["Editors"].items :
                      PrimaryVariable(i).value.dict["Editors"].items[k].type
                          = RenderedName(PkgUserType)
        /\ "At" \in DOMAIN PrimaryVariable(i).value.dict =>
               PrimaryVariable(i).value.dict["At"].fn = <<"t","i","m","e",".","D","a","t","e">>

\* ------------------------------------------------------------------------
\* C25 as the spec states it: the variable declarations and the collection
\* of a dataset render its type as the type renderer and the literal
\* emitter do, qualified exactly when qualification is enabled and the
\* type's package is non-empty, not main and not the generated package, and
\* with its bare name otherwise
\* ------------------------------------------------------------------------
C25_SameRenderingEverywhere ==
    PrimaryEmitted =>
        /\ FieldsRenderedByDecision
        /\ \A i \in DOMAIN g.Data.items :
               PrimaryVariable(i).value.type = RenderedName(PrimaryType)
        /\ PrimaryCollection.value.type = JIndex(JStar(RenderedName(PrimaryType)))

\* ------------------------------------------------------------------------
\* C25, amended: the type renderer and the literal emitter render a struct
\* type qualified exactly when qualification is enabled and its package is
\* non-empty, not main and not the generated package, with its bare name
\* otherwise, and a time always through time.Date; the variable
\* declarations and the collection of a dataset take the same decision, but
\* write the configured TypeName where the bare name would be, and where
\* the qualified name would be when TypeName holds a dot
\* ------------------------------------------------------------------------
C25_QualificationDecision ==
    PrimaryEmitted =>
        /\ FieldsRenderedByDecision
        /\ \A i \in DOMAIN g.Data.items :
               PrimaryVariable(i).value.type = DeclaredName(PrimaryType, g.TypeName)
        /\ PrimaryCollection.value.type
               = JIndex(JStar(DeclaredName(PrimaryType, g.TypeName)))
        /\ \A kind \in EmittedKinds :
               \A k \in DOMAIN g.Refs[kind].items :
                   KindVariable(kind, k).value.type
                       = DeclaredName(StructTypeOf(g.Refs[kind].items[1])[1], kind)

\* the Post of the package ex/pkg written to out/posts.go: the variable,
\* the collection, the User inside and the Tag variable are qualified
C25_Witness ==
    /\ PrimaryEmitted
    /\ g.OutputFile = <<"o","u","t","/","p","o","s","t","s",".","g","o">>
    /\ PrimaryType = PkgPostType
    /\ PrimaryVariable(1).value.type = JQual(PkgPath, PostName)
    /\ PrimaryVariable(1).value.dict["Author"].type = JQual(PkgPath, UserName)
    /\ PrimaryCollection.value.type = JIndex(JStar(JQual(PkgPath, PostName)))
    /\ TagName \in EmittedKinds
    /\ KindVariable(TagName, 1).value.type = JQual(PkgPath, TagName)

\* the fields of a record that are strings named ID, in any letter case
StringIDFields(record) ==
    { p \in DOMAIN record.fields :
          IsIDFieldName(record.fields[p].name) /\ record.fields[p].type = TString }

\* the value the constant of record i of a dataset of kind typeName holds
ConstantValue(record, i, typeName) ==
    LET id == record.f[record.fields[Least(StringIDFields(record))].name].s
    IN  JLitString(IF id = <<>> THEN ToLower(typeName) \o <<"-">> \o Itoa(i) ELSE id)

\* def is the constant of record i: named prefix + fragment + "ID"
IsConstantOf(def, record, i, prefix, typeName) ==
    /\ Len(def.name) >= 2
    /\ SubSeq(def.name, Len(def.name) - 1, Len(def.name)) = <<"I","D">>
    /\ NamedByPrecedence(SubSeq(def.name, 1, Len(def.name) - 2), prefix, typeName, record)
    /\ def.value = ConstantValue(record, i, typeName)

\* the declaration before the first variable of an emitted reference dataset
KindPreamble(kind) == g.File[1].decls[Least(KindVariableIndices(kind)) - 1]

\* ------------------------------------------------------------------------
\* C26: a dataset whose records have a string field named ID, in any letter
\* case, gets one group of constants with exactly one constant per record,
\* in record order, named ConstantIdent + the record's identifier fragment
\* + "ID", holding the record's ID, or the lower-cased kind name, a dash
\* and the record's index counted from 1 when the ID is empty; a dataset
\* without such a field gets no constant group at all
\* ------------------------------------------------------------------------
C26_ConstantPerRecord ==
    /\ PrimaryEmitted =>
           IF StringIDFields(DerefStruct(g.Data.items[1])) # {}
           THEN /\ g.File[1].decls[1].d = "const"
                /\ Len(PrimaryConstants) = Len(g.Data.items)
                /\ \A i \in DOMAIN g.Data.items :
                       IsConstantOf(PrimaryConstants[i], DerefStruct(g.Data.items[i]), i,
                                    g.ConstantIdent, g.TypeName)
           ELSE g.File[1].decls[1].d # "const"
    /\ \A kind \in EmittedKinds :
           IF StringIDFields(DerefStruct(g.Refs[kind].items[1])) # {}
           THEN /\ KindPreamble(kind).d = "const"
                /\ Len(KindPreamble(kind).defs) = Len(g.Refs[kind].items)
                /\ \A k \in DOMAIN g.Refs[kind].items :
                       IsConstantOf(KindPreamble(kind).defs[k],
                                    DerefStruct(g.Refs[kind].items[k]), k, kind, kind)
           ELSE KindPreamble(kind).d # "const"
    /\ PrimaryEmitted /\ pending = {} =>
           Cardinality({ j \in DOMAIN g.File[1].decls : g.File[1].decls[j].d = "const" })
               = Cardinality({ kind \in EmittedKinds :
                                   StringIDFields(DerefStruct(g.Refs[kind].items[1])) # {} })
                 + (IF StringIDFields(DerefStruct(g.Data.items[1])) # {} THEN 1 ELSE 0)

\* a Tag dataset whose second record has an empty ID, next to a User
\* dataset, which has no ID field
C26_Witness ==
    /\ EmittedKinds = {UserName, TagName}
    /\ Len(g.Refs[TagName].items) = 2
    /\ KindPreamble(TagName).defs[1].value = JLitString(ST1)
    /\ KindPreamble(TagName).defs[2].value = JLitString(<<"t","a","g","-","2">>)
    /\ KindPreamble(UserName).d # "const"
    /\ PrimaryConstants[1].value = JLitString(SP1)

\* the five values inferConfig fills in
ConfigOf(gen) ==
    <<gen.TypeName, gen.ConstantIdent, gen.VarPrefix, gen.OutputFile, gen.PackageName>>

\* a later call on a Generator whose earlier call inferred the configuration
\* and created the file
LaterCallAfterInference ==
    /\ calls >= 2
    /\ before # <<>>
    /\ before[1].File # <<>>
    /\ pc # "panicked"

\* ------------------------------------------------------------------------
\* C27: in a later call on a Generator whose earlier call inferred
\* TypeName, ConstantIdent, VarPrefix, OutputFile and PackageName, the five
\* hold the values the earlier call left, also when the primary data is of
\* another kind, while Data is the later call's data and Refs holds the
\* later call's reference datasets and nothing else
\* ------------------------------------------------------------------------
C27_InferredConfigIsSticky ==
    LaterCallAfterInference =>
        /\ ConfigOf(g) = ConfigOf(before[1])
        /\ <<g.Data, refsArg>> \in LaterCalls
        /\ g.Refs = BuildRefs(refsArg, 0, <<>>).Refs

\* after []Post with a User and a Tag dataset, Generate([]Tag) on the same
\* Generator writes the Tag as a Post to post_generated.go, and Refs is
\* empty
C27_Witness ==
    /\ LaterCallAfterInference
    /\ opts.explicit = NoOptions
    /\ pc = "returned"
    /\ err = ""
    /\ DOMAIN before[1].Refs = {UserName, TagName}
    /\ g.Data = VSlice(TagType, <<Tag(ST1, SGo)>>)
    /\ DOMAIN g.Refs = {}
    /\ g.TypeName = PostName
    /\ g.OutputFile = ToLower(PostName) \o GeneratedSuffix
    /\ g.File[1].decls[2].value.type = JId(PostName)
    /\ disk.writes = 2

\* Generate returned an error of the structural validation of the primary
\* data
ValidationFailed ==
    /\ pc = "returned"
    /\ before # <<>>
    /\ err \in {"InvalidTypeError", "EmptyError", "NonSliceOrArrayError"}

\* ------------------------------------------------------------------------
\* C28: when Generate returns an error of the structural validation of the
\* primary data, TypeName, ConstantIdent, VarPrefix, OutputFile,
\* PackageName and File are as the call found them, and so is every other
\* field but Data and Refs, which hold the failed call's data and the map
\* of the failed call's reference datasets
\* ------------------------------------------------------------------------
C28_FailedValidationKeepsConfig ==
    ValidationFailed =>
        /\ ConfigOf(g) = ConfigOf(before[1])
        /\ g.File = before[1].File
        /\ g = [before[1] EXCEPT !.Data = g.Data, !.Refs = g.Refs]
        /\ ValidateData(g.Data) # ""
        /\ g.Refs = BuildRefs(refsArg, 0, <<>>).Refs

\* after a successful Generate([]Post) with a User and a Tag dataset,
\* Generate("go", []User) on the same Generator fails: the configuration
\* and the file of the first call stay, Refs holds the User dataset only
C28_Witness ==
    /\ ValidationFailed
    /\ calls = 2
    /\ opts.explicit = NoOptions
    /\ g.Data = VString(SGo)
    /\ DOMAIN g.Refs = {UserName}
    /\ DOMAIN before[1].Refs = {UserName, TagName}
    /\ g.TypeName = PostName
    /\ g.File # <<>>
    /\ Len(g.File[1].decls) > 2
    /\ disk.writes = 1

\* the records of the primary dataset that embed the struct Embedded
Embedding == { i \in DOMAIN g.Data.items : "Embedded" \in DOMAIN DerefStruct(g.Data.items[i]).f }

\* the names the literal of record i refers to through the tagged field
\* Tags of its embedded struct
EmbeddedTagNames(i) ==
    IF "Tags" \in DOMAIN PrimaryVariable(i).value.dict["Embedded"].dict
    THEN NamesIn(PrimaryVariable(i).value.dict["Embedded"].dict["Tags"])
    ELSE {}

\* the variables of the Tag records that one of the slugs identifies
TargetsOf(slugs) ==
    { TagName \o slugToIdentifier(TagIdentifier(j)) :
          j \in { r \in DOMAIN TagRefs : \E k \in DOMAIN slugs : Matches(r, slugs[k].s) } }

\* ------------------------------------------------------------------------
\* C29 as the spec states it: a tagged field, also one declared in an
\* embedded struct of another package, refers to the variables of the
\* records its source field identifies, whether the output path enables
\* qualification or not
\* ------------------------------------------------------------------------
C29_SameTargetsEitherWay ==
    (PrimaryEmitted /\ TagName \in DOMAIN g.Refs) =>
        \A i \in Embedding :
            /\ LinkNames(i) = TargetsOf(DerefStruct(g.Data.items[i]).f.Refs.items)
            /\ EmbeddedTagNames(i)
                   = TargetsOf(DerefStruct(g.Data.items[i]).f.Embedded.f.TagSlugs.items)

\* ------------------------------------------------------------------------
\* C30 as the spec states it: a call of Generate ends by returning, nil or
\* an error, and in no other way, also when the pointers of a record lead
\* back to a record whose literal is being emitted
\* ------------------------------------------------------------------------
C30_EveryCallReturns == pc \notin {"crashed", "panicked"}

====
